---- MODULE Spec2Model ----
(***************************************************************************)
(* A model of EasySoccerData's response-mapping layer (the Sofascore,      *)
(* Promiedos and FBref parsers), of the service and client layers that     *)
(* orchestrate one transport call and one parser call per operation.       *)
(*                                                                         *)
(* Encoding of Python values.  A decoded JSON object (dict) is a function  *)
(* whose DOMAIN is the set of keys that are present.  A Python value that  *)
(* may be None is carried as a sequence of length at most one: None is     *)
(* <<>> and the value x is <<x>>.  An exception is its type and its        *)
(* argument.  A string that is matched against a pattern is the sequence   *)
(* of its characters.                                                      *)
(*                                                                         *)
(* ParseSpec calls one parser on one payload.  Spec is a caller of the     *)
(* three clients, one operation at a time; the transport is the            *)
(* environment, and answers each request with a failure or a body.         *)
(* ServiceSpec makes a sequence of calls on one instance of each service.  *)
(* RetrySpec runs the retry wrapper of run_stats_collector.py, CollectSpec *)
(* the loops of TeamStatsCollector over fixtures and recent matches,       *)
(* CsvSpec one call of save_stats_to_csv, and SearchSpec a sequence of     *)
(* search_team calls on one FBrefStatsFetcher.  FixturesSpec makes one     *)
(* call of a method of the fixture collectors: FixtureStatsCollector,      *)
(* the generators of generate_team_stats.py and TeamStatsCollector.        *)
(***************************************************************************)
EXTENDS Integers, Sequences, FiniteSets, TLC

VARIABLES
    parser_fn,      \* ParseSpec: the parser under call
    parser_args,    \* ParseSpec: its positional arguments
    parser_out,     \* ParseSpec: its outcome, NotCalled before the call
    pc,             \* Spec: the caller's position: "idle", or inside get_team
    client_op,      \* Spec: the client operation last started and its arguments
    service_calls,  \* Spec: the service calls that operation has made, in order
    outcome,        \* Spec: what the operation gave its caller
    team,           \* Spec: get_team's local variable team
    services,       \* ServiceSpec: the attributes of the two service instances
    first_call,     \* ServiceSpec: the first call made on them, None before it
    last_call,      \* ServiceSpec: the call made last
    calls_made,     \* ServiceSpec: the number of calls made
    max_retries,    \* RetrySpec: the --max-retries the wrapper was installed with
    retry_delay,    \* RetrySpec: the --retry-delay it was installed with
    attempt,        \* RetrySpec: the loop variable of the wrapper
    retry_log,      \* RetrySpec: the calls of get_match_statistics and the sleeps, in order
    retry_result,   \* RetrySpec: what the wrapper gave its caller, NotCalled while it runs
    fixtures,       \* CollectSpec: the number of rows of fixtures_df
    fixture,        \* CollectSpec: the row the loop of collect_stats_for_teams is at, from 1
    side,           \* CollectSpec: the team of the row _process_team is called for
    collect_pc,     \* CollectSpec: the position in collect_stats_for_teams and _process_team
    recent_matches, \* CollectSpec: the number of matches the loop of _process_team runs over
    match,          \* CollectSpec: the match that loop is at, from 1
    collect_log,    \* CollectSpec: the network calls and the sleeps of the collector, in order
    csv_collector,  \* CsvSpec: the class whose save_stats_to_csv is called
    csv_args,       \* CsvSpec: its arguments stats and output_file
    csv_files,      \* CsvSpec: the files written, by path
    csv_returned,   \* CsvSpec: what the call gave its caller, NotCalled before it
    use_esd_client, \* SearchSpec: whether esd.fbref could be imported
    team_url_cache, \* SearchSpec: the URL cached for each cleaned team name
    search_log,     \* SearchSpec: the calls of search_team so far, oldest first
    fx_fn,          \* FixturesSpec: the method called, of FixtureStatsCollector or of the offline generator
    fx_args,        \* FixturesSpec: what the call meets: the fixtures frame, what the fetcher does, the day
    fx_files,       \* FixturesSpec: the files written, by path
    fx_out          \* FixturesSpec: what the call gave its caller, NotCalled before it


-----------------------------------------------------------------------------
(* Python values and outcomes *)

None == <<>>
Some(x) == <<x>>

\* dict.get(key, default)
Get(data, key, default) == IF key \in DOMAIN data THEN data[key] ELSE default

\* dict.get(key): None when the key is absent
GetOpt(data, key) == IF key \in DOMAIN data THEN Some(data[key]) ELSE None

\* the empty dict {}
EmptyDict == [k \in {} |-> 0]

\* the dict restricted to the keys in keep
Restrict(data, keep) == [k \in (DOMAIN data) \cap keep |-> data[k]]

\* the dict with data[key] replaced by value
With(data, key, value) == [k \in DOMAIN data |-> IF k = key THEN value ELSE data[k]]

Return(value) == [raised |-> None, returned |-> Some(value)]
Raise(exc) == [raised |-> Some(exc), returned |-> None]
\* an exception: its type and its argument
Exc(type, arg) == [type |-> type, arg |-> arg]
NotCalled == [raised |-> None, returned |-> None]

-----------------------------------------------------------------------------
(* The parts of the state, one for each specification, and each part at rest *)

parse_vars == <<parser_fn, parser_args, parser_out>>
client_vars == <<pc, client_op, service_calls, outcome, team>>
service_vars == <<services, first_call, last_call, calls_made>>
retry_vars == <<max_retries, retry_delay, attempt, retry_log, retry_result>>
collect_vars == <<fixtures, fixture, side, collect_pc, recent_matches, match, collect_log>>
csv_vars == <<csv_collector, csv_args, csv_files, csv_returned>>
search_vars == <<use_esd_client, team_url_cache, search_log>>
fx_vars == <<fx_fn, fx_args, fx_files, fx_out>>

vars == <<parser_fn, parser_args, parser_out, pc, client_op, service_calls, outcome,
          team, services, first_call, last_call, calls_made, max_retries, retry_delay,
          attempt, retry_log, retry_result, fixtures, fixture, side, collect_pc,
          recent_matches, match, collect_log, csv_collector, csv_args, csv_files,
          csv_returned, use_esd_client, team_url_cache, search_log, fx_fn, fx_args,
          fx_files, fx_out>>

\* the parsers at rest
ParseIdle ==
    /\ parser_fn = "none"
    /\ parser_args = <<>>
    /\ parser_out = NotCalled

\* the client layer at rest
ClientIdle ==
    /\ pc = "idle"
    /\ client_op = [client |-> "none", name |-> "none", args |-> <<>>]
    /\ service_calls = <<>>
    /\ outcome = NotCalled
    /\ team = None

\* the two service instances as their constructors leave them
ServiceIdle ==
    /\ services = [sofascore |-> [endpoints |-> "SofascoreEndpoints()"],
                   promiedos |-> [endpoints |-> "PromiedosEndpoints()"]]
    /\ first_call = None
    /\ last_call = None
    /\ calls_made = 0

\* the retry wrapper before it is called
RetryIdle ==
    /\ max_retries = 0
    /\ retry_delay = 0
    /\ attempt = 0
    /\ retry_log = <<>>
    /\ retry_result = NotCalled

\* the collector before collect_stats_for_teams is called
CollectIdle ==
    /\ fixtures = 0
    /\ fixture = 1
    /\ side = "home"
    /\ collect_pc = "done"
    /\ recent_matches = 0
    /\ match = 1
    /\ collect_log = <<>>

\* no call of save_stats_to_csv yet, and no file
CsvIdle ==
    /\ csv_collector = "none"
    /\ csv_args = <<>>
    /\ csv_files = <<>>
    /\ csv_returned = NotCalled

\* a fetcher not yet constructed: no cache, no call of search_team
SearchIdle ==
    /\ use_esd_client = FALSE
    /\ team_url_cache = <<>>
    /\ search_log = <<>>

\* no fixture processing called yet, and no file
FxIdle ==
    /\ fx_fn = "none"
    /\ fx_args = <<>>
    /\ fx_files = <<>>
    /\ fx_out = NotCalled

\* what the actions of one specification leave alone, and where it starts
not_parse_vars == <<client_vars, service_vars, retry_vars, collect_vars, csv_vars, search_vars, fx_vars>>
NotParseIdle == ClientIdle /\ ServiceIdle /\ RetryIdle /\ CollectIdle /\ CsvIdle /\ SearchIdle /\ FxIdle
not_client_vars == <<parse_vars, service_vars, retry_vars, collect_vars, csv_vars, search_vars, fx_vars>>
NotClientIdle == ParseIdle /\ ServiceIdle /\ RetryIdle /\ CollectIdle /\ CsvIdle /\ SearchIdle /\ FxIdle
not_service_vars == <<parse_vars, client_vars, retry_vars, collect_vars, csv_vars, search_vars, fx_vars>>
NotServiceIdle == ParseIdle /\ ClientIdle /\ RetryIdle /\ CollectIdle /\ CsvIdle /\ SearchIdle /\ FxIdle
not_retry_vars == <<parse_vars, client_vars, service_vars, collect_vars, csv_vars, search_vars, fx_vars>>
NotRetryIdle == ParseIdle /\ ClientIdle /\ ServiceIdle /\ CollectIdle /\ CsvIdle /\ SearchIdle /\ FxIdle
not_collect_vars == <<parse_vars, client_vars, service_vars, retry_vars, csv_vars, search_vars, fx_vars>>
NotCollectIdle == ParseIdle /\ ClientIdle /\ ServiceIdle /\ RetryIdle /\ CsvIdle /\ SearchIdle /\ FxIdle
not_csv_vars == <<parse_vars, client_vars, service_vars, retry_vars, collect_vars, search_vars, fx_vars>>
NotCsvIdle == ParseIdle /\ ClientIdle /\ ServiceIdle /\ RetryIdle /\ CollectIdle /\ SearchIdle /\ FxIdle
not_search_vars == <<parse_vars, client_vars, service_vars, retry_vars, collect_vars, csv_vars, fx_vars>>
NotSearchIdle == ParseIdle /\ ClientIdle /\ ServiceIdle /\ RetryIdle /\ CollectIdle /\ CsvIdle /\ FxIdle
not_fx_vars == <<parse_vars, client_vars, service_vars, retry_vars, collect_vars, csv_vars, search_vars>>
NotFxIdle == ParseIdle /\ ClientIdle /\ ServiceIdle /\ RetryIdle /\ CollectIdle /\ CsvIdle /\ SearchIdle

-----------------------------------------------------------------------------
(* esd/sofascore/types/team.py *)

\* country.py is not part of the source tree; Country is read with defaults
\* like every other sub-object of the summary.
parse_country(data) ==
    [name |-> Get(data, "name", ""),
     alpha2 |-> Get(data, "alpha2", ""),
     alpha3 |-> Get(data, "alpha3", "")]

\* parse_team_score with normaltime falling back on the current score
parse_team_score_normaltime_from_current(data) ==
    [current |-> Get(data, "current", 0),
     display |-> Get(data, "display", 0),
     period1 |-> Get(data, "period1", 0),
     period2 |-> Get(data, "period2", 0),
     normaltime |-> Get(data, "normaltime", Get(data, "current", 0))]

parse_team_score(data) ==
    [current |-> Get(data, "current", 0),
     display |-> Get(data, "display", 0),
     period1 |-> Get(data, "period1", 0),
     period2 |-> Get(data, "period2", 0),
     normaltime |-> Get(data, "normaltime", 0)]

parse_team_summary(data) ==
    [name |-> Get(data, "name", ""),
     short_name |-> Get(data, "shortName", ""),
     slug |-> Get(data, "slug", ""),
     name_code |-> Get(data, "nameCode", ""),
     id |-> Get(data, "id", 0),
     country |-> parse_country(Get(data, "country", EmptyDict)),
     entity_type |-> Get(data, "entityType", ""),
     team_colors |->
        [primary |-> Get(Get(data, "teamColors", EmptyDict), "primary", "#000000"),
         secondary |-> Get(Get(data, "teamColors", EmptyDict), "secondary", "#000000"),
         text |-> Get(Get(data, "teamColors", EmptyDict), "text", "#000000")]]

-----------------------------------------------------------------------------
(* esd/sofascore/types/event.py *)

parse_time_event(data) ==
    [first_injury_time |-> Get(data, "injuryTime1", 0),
     second_injury_time |-> Get(data, "injuryTime2", 0),
     current_period_start |-> Get(data, "currentPeriodStartTimestamp", 0)]

parse_round_info(data) ==
    [round |-> Get(data, "round", 0),
     name |-> Get(data, "name", "n/a"),
     cupRoundType |-> Get(data, "cupRoundType", 0)]

parse_status(data) ==
    [code |-> Get(data, "code", 0),
     description |-> Get(data, "description", "n/a"),
     type |-> Get(data, "type", "n/a")]

\* The Event(...) constructor call of parse_events: every keyword is passed,
\* so no dataclass default is used; event.get(key) gives None for an absent key.
Event(event) ==
    [id |-> GetOpt(event, "id"),
     start_timestamp |-> GetOpt(event, "startTimestamp"),
     slug |-> GetOpt(event, "slug"),
     custom_id |-> GetOpt(event, "customId"),
     feed_locked |-> GetOpt(event, "feedLocked"),
     final_result_only |-> GetOpt(event, "finalResultOnly"),
     coverage |-> GetOpt(event, "coverage"),
     time |-> parse_time_event(Get(event, "time", EmptyDict)),
     home_team |-> parse_team_summary(Get(event, "homeTeam", EmptyDict)),
     away_team |-> parse_team_summary(Get(event, "awayTeam", EmptyDict)),
     home_score |-> parse_team_score(Get(event, "homeScore", EmptyDict)),
     away_score |-> parse_team_score(Get(event, "awayScore", EmptyDict)),
     status |-> parse_status(Get(event, "status", EmptyDict)),
     round_info |-> parse_round_info(Get(event, "roundInfo", EmptyDict))]

\* the comprehension's condition: event.get("status", {}).get("type") == target_status
StatusMatches(event, target_status) ==
    GetOpt(Get(event, "status", EmptyDict), "type") = target_status

\* parse_events filtering on the parsed Status, whose type defaults to "n/a"
RECURSIVE parse_events_filters_parsed_status(_, _)
parse_events_filters_parsed_status(events, target_status) ==
    IF Len(events) = 0 THEN <<>>
    ELSE IF Some(parse_status(Get(Head(events), "status", EmptyDict)).type) = target_status
         THEN <<Event(Head(events))>>
                  \o parse_events_filters_parsed_status(Tail(events), target_status)
         ELSE parse_events_filters_parsed_status(Tail(events), target_status)

RECURSIVE parse_events(_, _)
parse_events(events, target_status) ==
    IF Len(events) = 0 THEN <<>>
    ELSE IF StatusMatches(Head(events), target_status)
         THEN <<Event(Head(events))>> \o parse_events(Tail(events), target_status)
         ELSE parse_events(Tail(events), target_status)

-----------------------------------------------------------------------------
(* esd/sofascore/types/player.py *)

\* the keys parse_player indexes, in the order Player(...) evaluates them
PlayerKeys ==
    <<"name", "slug", "shortName", "position", "jerseyNumber", "height",
      "preferredFoot", "gender", "id", "shirtNumber", "dateOfBirthTimestamp",
      "contractUntilTimestamp", "proposedMarketValue">>

\* the first key of PlayerKeys, from position i on, that data lacks (0: none)
RECURSIVE FirstMissing(_, _)
FirstMissing(data, i) ==
    IF i > Len(PlayerKeys) THEN 0
    ELSE IF PlayerKeys[i] \notin DOMAIN data THEN i
    ELSE FirstMissing(data, i + 1)

\* data["key"] raises KeyError for an absent key
parse_player(data) ==
    IF FirstMissing(data, 1) # 0
    THEN Raise(Exc("KeyError", PlayerKeys[FirstMissing(data, 1)]))
    ELSE Return(
        [name |-> data["name"],
         slug |-> data["slug"],
         short_name |-> data["shortName"],
         position |-> data["position"],
         jersey_number |-> data["jerseyNumber"],
         height |-> data["height"],
         preferred_foot |-> data["preferredFoot"],
         gender |-> data["gender"],
         id |-> data["id"],
         shirt_number |-> data["shirtNumber"],
         date_of_birth |-> data["dateOfBirthTimestamp"],
         contract_until |-> data["contractUntilTimestamp"],
         market_value |-> data["proposedMarketValue"]])

-----------------------------------------------------------------------------
(* The transport (esd/utils.py: get_json, get_document), an external
   collaborator: asked for a URL it raises, or gives the decoded body. *)

Ok(payload) == [ok |-> TRUE, exc |-> Exc("none", ""), payload |-> Some(payload)]
Fail(exc) == [ok |-> FALSE, exc |-> exc, payload |-> None]

\* a URL: the endpoint of the registry and the value formatted into it
Url(endpoint, arg) == [endpoint |-> endpoint, arg |-> arg]

\* what a service call did: its outcome and the URLs it requested, in order
Did(out, requests) ==
    [raised |-> out.raised, returned |-> out.returned, requests |-> requests]

\* get_today() (esd/utils.py)
get_today == "2025-01-15"

\* if not date: date = get_today()
DateOrToday(date) == IF date = None \/ date = Some("") THEN get_today ELSE date[1]

-----------------------------------------------------------------------------
(* esd/sofascore/types/team_ex.py *)

\* color.py and manager.py are not part of the source tree
parse_color(data) ==
    [primary |-> Get(data, "primary", ""),
     secondary |-> Get(data, "secondary", ""),
     text |-> Get(data, "text", "")]

parse_manager(data) ==
    [name |-> Get(data, "name", ""), id |-> Get(data, "id", 0)]

parse_team_ex(data) ==
    [name |-> GetOpt(data, "name"),
     short_name |-> GetOpt(data, "shortName"),
     slug |-> GetOpt(data, "slug"),
     name_code |-> GetOpt(data, "nameCode"),
     id |-> Get(data, "id", 0),
     entity_type |-> GetOpt(data, "entityType"),
     country |-> parse_country(Get(data, "country", EmptyDict)),
     color |-> parse_color(Get(data, "teamColors", EmptyDict)),
     manager |-> parse_manager(Get(data, "manager", EmptyDict))]

\* sofascore/types/match_stats.py is not part of the source tree: the record
\* keeps the periods of the payload
parse_match_stats(data) == [periods |-> data]

-----------------------------------------------------------------------------
(* esd/sofascore/service.py *)

\* A call parse_events(*args): def parse_events(events, target_status) has two
\* required positional parameters, so any other number of arguments is a TypeError.
parse_events_call(args) ==
    IF Len(args) # 2
    THEN Raise(Exc("TypeError", "parse_events() missing 1 required positional argument"))
    ELSE Return(parse_events(args[1], args[2]))

\* get_events: the one request, the "events" key, the parser; an exception is
\* caught and raised again as it is
SofascoreService_get_events(date, resp) ==
    LET url == Url("events", DateOrToday(date))
    IN  IF ~resp.ok THEN Did(Raise(resp.exc), <<url>>)
        ELSE IF "events" \notin DOMAIN resp.payload[1]
        THEN Did(Raise(Exc("KeyError", "events")), <<url>>)
        ELSE Did(parse_events_call(<<resp.payload[1]["events"]>>), <<url>>)

SofascoreService_get_live_events(resp) ==
    LET url == Url("live_events", "")
    IN  IF ~resp.ok THEN Did(Raise(resp.exc), <<url>>)
        ELSE IF "events" \notin DOMAIN resp.payload[1]
        THEN Did(Raise(Exc("KeyError", "events")), <<url>>)
        ELSE Did(parse_events_call(<<resp.payload[1]["events"]>>), <<url>>)

\* get_match_stats reads "statistics" with get(key, {})
SofascoreService_get_match_stats(event_id, resp) ==
    LET url == Url("match_stats", event_id)
    IN  IF ~resp.ok THEN Did(Raise(resp.exc), <<url>>)
        ELSE Did(Return(parse_match_stats(Get(resp.payload[1], "statistics", EmptyDict))),
                 <<url>>)

\* get_team asking again after a failed request
SofascoreService_get_team_retries(team_id, resp) ==
    LET url == Url("team", team_id)
    IN  IF ~resp.ok THEN Did(Raise(resp.exc), <<url, url>>)
        ELSE IF "team" \notin DOMAIN resp.payload[1]
        THEN Did(Raise(Exc("KeyError", "team")), <<url>>)
        ELSE Did(Return(parse_team_ex(resp.payload[1]["team"])), <<url>>)

\* get_team reading "team" with get(key, {})
SofascoreService_get_team_defaults_team(team_id, resp) ==
    LET url == Url("team", team_id)
    IN  IF ~resp.ok THEN Did(Raise(resp.exc), <<url>>)
        ELSE Did(Return(parse_team_ex(Get(resp.payload[1], "team", EmptyDict))), <<url>>)

SofascoreService_get_team(team_id, resp) ==
    LET url == Url("team", team_id)
    IN  IF ~resp.ok THEN Did(Raise(resp.exc), <<url>>)
        ELSE IF "team" \notin DOMAIN resp.payload[1]
        THEN Did(Raise(Exc("KeyError", "team")), <<url>>)
        ELSE Did(Return(parse_team_ex(resp.payload[1]["team"])), <<url>>)

\* [parse_player(player["player"]) for player in players]: the first entry
\* that raises ends the comprehension
RECURSIVE parse_players(_)
parse_players(players) ==
    IF Len(players) = 0 THEN Return(<<>>)
    ELSE IF "player" \notin DOMAIN Head(players) THEN Raise(Exc("KeyError", "player"))
    ELSE LET first == parse_player(Head(players)["player"])
             rest == parse_players(Tail(players))
         IN  IF first.raised # None THEN first
             ELSE IF rest.raised # None THEN rest
             ELSE Return(<<first.returned[1]>> \o rest.returned[1])

\* get_team_players raising an error of its own in place of the one it caught
SofascoreService_get_team_players_wraps(team_id, resp) ==
    LET url == Url("team_players", team_id)
    IN  IF ~resp.ok THEN Did(Raise(Exc("SofascoreError", resp.exc.type)), <<url>>)
        ELSE IF "players" \notin DOMAIN resp.payload[1]
        THEN Did(Raise(Exc("SofascoreError", "KeyError")), <<url>>)
        ELSE Did(parse_players(resp.payload[1]["players"]), <<url>>)

SofascoreService_get_team_players(team_id, resp) ==
    LET url == Url("team_players", team_id)
    IN  IF ~resp.ok THEN Did(Raise(resp.exc), <<url>>)
        ELSE IF "players" \notin DOMAIN resp.payload[1]
        THEN Did(Raise(Exc("KeyError", "players")), <<url>>)
        ELSE Did(parse_players(resp.payload[1]["players"]), <<url>>)

-----------------------------------------------------------------------------
(* esd/sofascore/client.py *)

\* team.players = players: the attribute is set on the object
SetAttr(obj, attr, value) ==
    [k \in DOMAIN obj \cup {attr} |-> IF k = attr THEN value ELSE obj[k]]

\* get_team substituting an empty roster when the roster call fails
SofascoreClient_get_team_roster_optional(detail, roster) ==
    IF roster.raised # None THEN Return(SetAttr(detail, "players", <<>>))
    ELSE Return(SetAttr(detail, "players", roster.returned[1]))

\* the end of get_team: players = get_team_players(team_id) propagates the
\* call's exception; otherwise team.players = players; return team
SofascoreClient_get_team_compose(detail, roster) ==
    IF roster.raised # None THEN Raise(roster.raised[1])
    ELSE Return(SetAttr(detail, "players", roster.returned[1]))

-----------------------------------------------------------------------------
(* esd/promiedos/service.py *)

\* a string is the sequence of its characters
Digits == {"0", "1", "2", "3", "4", "5", "6", "7", "8", "9"}

\* re.match(r"\d{4}-\d{2}-\d{2}", date): the pattern at the start of date
MatchesDatePattern(date) ==
    /\ Len(date) >= 10
    /\ \A i \in {1, 2, 3, 4, 6, 7, 9, 10} : date[i] \in Digits
    /\ date[5] = "-"
    /\ date[8] = "-"

\* is_available_date(date, pattern) (esd/utils.py) raises for a date that does
\* not match the pattern
is_available_date(date) ==
    IF MatchesDatePattern(date) THEN Return(TRUE)
    ELSE Raise(Exc("ValueError", "date"))

today == <<"t", "o", "d", "a", "y">>
yesterday == <<"y", "e", "s", "t", "e", "r", "d", "a", "y">>
tomorrow == <<"t", "o", "m", "o", "r", "r", "o", "w">>
available_dates == {today, yesterday, tomorrow}

InvalidDate == Exc("InvalidDate", "Invalid date format.")

\* get_events validating the date only after the request was made
PromiedosService_get_events_validates_late(date, resp) ==
    LET url == Url("events", date)
    IN  IF date \notin available_dates /\ is_available_date(date).raised # None
        THEN Did(Raise(InvalidDate), <<url>>)
        ELSE IF ~resp.ok THEN Did(Raise(resp.exc), <<url>>)
        ELSE IF "leagues" \notin DOMAIN resp.payload[1]
        THEN Did(Raise(Exc("KeyError", "leagues")), <<url>>)
        ELSE Did(Return(resp.payload[1]["leagues"]), <<url>>)

\* get_events: the date is validated unless it is one of the available dates;
\* then the one request; the value under "leagues" is returned as decoded
PromiedosService_get_events(date, resp) ==
    LET url == Url("events", date)
    IN  IF date \notin available_dates /\ is_available_date(date).raised # None
        THEN Did(Raise(InvalidDate), <<>>)
        ELSE IF ~resp.ok THEN Did(Raise(resp.exc), <<url>>)
        ELSE IF "leagues" \notin DOMAIN resp.payload[1]
        THEN Did(Raise(Exc("KeyError", "leagues")), <<url>>)
        ELSE Did(Return(resp.payload[1]["leagues"]), <<url>>)

-----------------------------------------------------------------------------
(* datetime.strptime and datetime.timestamp, as promiedos/types/match.py uses
   them *)

DigitRow == <<"0", "1", "2", "3", "4", "5", "6", "7", "8", "9">>
DigitValue(c) == (CHOOSE n \in 1..10 : DigitRow[n] = c) - 1

\* int(text) for a run of decimal digits, leading blanks stripped
RECURSIVE int(_)
int(text) ==
    IF text = <<>> THEN 0
    ELSE IF text[1] = " " THEN int(Tail(text))
    ELSE 10 * int(SubSeq(text, 1, Len(text) - 1)) + DigitValue(text[Len(text)])

\* the characters \s matches
Whitespace == {" ", "\t", "\n"}

\* the directives of the format, as the regular expressions strptime compiles
\* %d: 3[0-1]|[1-2]\d|0[1-9]|[1-9]| [1-9]
Matches_d(text) ==
    \/ Len(text) = 2 /\ text[1] = "3" /\ text[2] \in {"0", "1"}
    \/ Len(text) = 2 /\ text[1] \in {"1", "2"} /\ text[2] \in Digits
    \/ Len(text) = 2 /\ text[1] \in {"0", " "} /\ text[2] \in Digits \ {"0"}
    \/ Len(text) = 1 /\ text[1] \in Digits \ {"0"}

\* %m: 1[0-2]|0[1-9]|[1-9]
Matches_m(text) ==
    \/ Len(text) = 2 /\ text[1] = "1" /\ text[2] \in {"0", "1", "2"}
    \/ Len(text) = 2 /\ text[1] = "0" /\ text[2] \in Digits \ {"0"}
    \/ Len(text) = 1 /\ text[1] \in Digits \ {"0"}

\* %Y: \d\d\d\d
Matches_Y(text) == Len(text) = 4 /\ \A i \in 1..4 : text[i] \in Digits

\* %H: 2[0-3]|[0-1]\d|\d
Matches_H(text) ==
    \/ Len(text) = 2 /\ text[1] = "2" /\ text[2] \in {"0", "1", "2", "3"}
    \/ Len(text) = 2 /\ text[1] \in {"0", "1"} /\ text[2] \in Digits
    \/ Len(text) = 1 /\ text[1] \in Digits

\* %M: [0-5]\d|\d
Matches_M(text) ==
    \/ Len(text) = 2 /\ text[1] \in {"0", "1", "2", "3", "4", "5"} /\ text[2] \in Digits
    \/ Len(text) = 1 /\ text[1] \in Digits

\* the first position at or after from that holds c, 0 when there is none
Find(text, c, from) ==
    LET at == {i \in from..Len(text) : text[i] = c}
    IN  IF at = {} THEN 0 ELSE CHOOSE i \in at : \A j \in at : i <= j

\* the first position at or after from that holds no whitespace
SkipWhitespace(text, from) ==
    LET at == {i \in from..Len(text) : text[i] \notin Whitespace}
    IN  IF at = {} THEN Len(text) + 1 ELSE CHOOSE i \in at : \A j \in at : i <= j

\* calendar.isleap and the days of a month
isleap(year) == year % 4 = 0 /\ (year % 100 # 0 \/ year % 400 = 0)
days_in_month(year, month) ==
    IF month = 2 THEN (IF isleap(year) THEN 29 ELSE 28)
    ELSE IF month \in {4, 6, 9, 11} THEN 30 ELSE 31

\* datetime.strptime(date_string, "%d-%m-%Y %H:%M"): the whole string has to
\* match (?P<d>..)-(?P<m>..)-(?P<Y>..)\s+(?P<H>..):(?P<M>..), and the fields
\* have to name a day of the calendar
strptime(date_string) ==
    LET dash1 == Find(date_string, "-", 1)
        dash2 == IF dash1 = 0 THEN 0 ELSE Find(date_string, "-", dash1 + 1)
        gap == dash2 + 5
        hour_at == SkipWhitespace(date_string, gap)
        colon == Find(date_string, ":", hour_at)
        d == SubSeq(date_string, 1, dash1 - 1)
        m == SubSeq(date_string, dash1 + 1, dash2 - 1)
        Y == SubSeq(date_string, dash2 + 1, dash2 + 4)
        H == SubSeq(date_string, hour_at, colon - 1)
        M == SubSeq(date_string, colon + 1, Len(date_string))
        matched ==
            /\ dash1 # 0
            /\ dash2 # 0
            /\ colon # 0
            /\ gap <= Len(date_string)
            /\ hour_at > gap
            /\ Matches_d(d)
            /\ Matches_m(m)
            /\ Matches_Y(Y)
            /\ Matches_H(H)
            /\ Matches_M(M)
    IN  IF ~matched
        THEN Raise(Exc("ValueError", "time data does not match format"))
        ELSE IF int(Y) < 1
        THEN Raise(Exc("ValueError", "year is out of range"))
        ELSE IF int(d) > days_in_month(int(Y), int(m))
        THEN Raise(Exc("ValueError", "day is out of range for month"))
        ELSE Return([day |-> int(d), month |-> int(m), year |-> int(Y),
                     hour |-> int(H), minute |-> int(M)])

\* the days before the first of January of year, and before the first of month
days_before_year(year) ==
    LET y == year - 1 IN y * 365 + (y \div 4) - (y \div 100) + (y \div 400)
RECURSIVE days_before_month(_, _)
days_before_month(year, month) ==
    IF month = 1 THEN 0
    ELSE days_before_month(year, month - 1) + days_in_month(year, month - 1)

\* date.toordinal(): the first of January of the year 1 is day 1
toordinal(dt) == days_before_year(dt.year) + days_before_month(dt.year, dt.month) + dt.day

\* dt.timestamp() of a naive datetime: the seconds from 1970-01-01 00:00 of the
\* local zone, taken to be UTC
timestamp(dt) ==
    (toordinal(dt) - toordinal([year |-> 1970, month |-> 1, day |-> 1])) * 86400
        + dt.hour * 3600 + dt.minute * 60

-----------------------------------------------------------------------------
(* esd/promiedos/types: scores.py, status.py, team.py, match.py *)

\* parse_scores: Scores() for an empty list, else the first two entries
parse_scores(data) ==
    IF data = <<>> THEN Return([home |-> 0, away |-> 0])
    ELSE IF Len(data) < 2 THEN Raise(Exc("IndexError", "list index out of range"))
    ELSE Return([home |-> data[1], away |-> data[2]])

Promiedos_parse_status(data) ==
    [enum |-> Get(data, "enum", 0),
     name |-> GetOpt(data, "name"),
     short_name |-> GetOpt(data, "short_name"),
     symbol_name |-> GetOpt(data, "symbol_name")]

\* parse_color (promiedos/types/color.py, not part of the source tree): the
\* colours as decoded
Promiedos_parse_color(data) == [colors |-> data]

Promiedos_parse_team(data) ==
    [name |-> GetOpt(data, "name"),
     short_name |-> GetOpt(data, "short_name"),
     slug |-> GetOpt(data, "url_name"),
     id |-> GetOpt(data, "id"),
     country_id |-> GetOpt(data, "country_id"),
     color |-> Promiedos_parse_color(Get(data, "colors", EmptyDict)),
     red_cards |-> Get(data, "red_cards", 0)]

\* match_stats.py: parse_stats reads two values and two percentages
parse_stats(stat) ==
    IF "values" \notin DOMAIN stat THEN Raise(Exc("KeyError", "values"))
    ELSE IF Len(stat["values"]) < 2 THEN Raise(Exc("IndexError", "list index out of range"))
    ELSE IF "percentages" \notin DOMAIN stat THEN Raise(Exc("KeyError", "percentages"))
    ELSE IF Len(stat["percentages"]) < 2
    THEN Raise(Exc("IndexError", "list index out of range"))
    ELSE Return([home_value |-> stat["values"][1],
                 away_value |-> stat["values"][2],
                 home_percentage |-> stat["percentages"][1],
                 away_percentage |-> stat["percentages"][2]])

\* the lookup table of parse_match_stats, from label to field; the third label
\* is written with the code points the source file holds after "Posesi"
stats_map ==
    [label \in {"Total Remates", "Remates al arco", "Posesi(U+221A)(U+2265)n", "Saques de falta",
                "Saques de Esquina", "Fueras de Juego", "Faltas",
                "Tarjetas Amarillas", "Tarjetas Rojas"} |->
        CASE label = "Total Remates" -> "total_shots"
          [] label = "Remates al arco" -> "shots_on_target"
          [] label = "Posesi(U+221A)(U+2265)n" -> "possession"
          [] label = "Saques de falta" -> "free_kicks"
          [] label = "Saques de Esquina" -> "corners"
          [] label = "Fueras de Juego" -> "offsides"
          [] label = "Faltas" -> "fouls"
          [] label = "Tarjetas Amarillas" -> "yellow_cards"
          [] label = "Tarjetas Rojas" -> "red_cards"]

\* the fields MatchStats declares, each None by default
MatchStats_fields ==
    {"total_shots", "shots_on_target", "possession", "free_kicks", "corners",
     "offsides", "yellow_cards", "red_cards", "fouls"}

\* parsed_stats[key] = value
SetItem(dict, key, value) ==
    [k \in DOMAIN dict \cup {key} |-> IF k = key THEN value ELSE dict[k]]

\* the loop of parse_match_stats ending at the first entry whose label is not
\* in the table
RECURSIVE parsed_stats_until_unknown(_, _)
parsed_stats_until_unknown(data, parsed_stats) ==
    IF data = <<>> THEN Return(parsed_stats)
    ELSE LET stat == Head(data)
         IN  IF "name" \notin DOMAIN stat THEN Raise(Exc("KeyError", "name"))
             ELSE IF stat["name"] \notin DOMAIN stats_map THEN Return(parsed_stats)
             ELSE IF parse_stats(stat).raised # None THEN parse_stats(stat)
             ELSE parsed_stats_until_unknown(
                      Tail(data),
                      SetItem(parsed_stats, stats_map[stat["name"]],
                              parse_stats(stat).returned[1]))

\* the loop of parse_match_stats: an entry whose label the table does not
\* have is skipped, the others are parsed and stored under the table's field
RECURSIVE parsed_stats_loop(_, _)
parsed_stats_loop(data, parsed_stats) ==
    IF data = <<>> THEN Return(parsed_stats)
    ELSE LET stat == Head(data)
         IN  IF "name" \notin DOMAIN stat THEN Raise(Exc("KeyError", "name"))
             ELSE IF stat["name"] \notin DOMAIN stats_map
             THEN parsed_stats_loop(Tail(data), parsed_stats)
             ELSE IF parse_stats(stat).raised # None THEN parse_stats(stat)
             ELSE parsed_stats_loop(
                      Tail(data),
                      SetItem(parsed_stats, stats_map[stat["name"]],
                              parse_stats(stat).returned[1]))

\* MatchStats(**parsed_stats)
MatchStats(parsed_stats) ==
    [field \in MatchStats_fields |-> GetOpt(parsed_stats, field)]

Promiedos_parse_match_stats_stops_at_unknown(data) ==
    LET parsed_stats == parsed_stats_until_unknown(data, EmptyDict)
    IN  IF parsed_stats.raised # None THEN parsed_stats
        ELSE Return(MatchStats(parsed_stats.returned[1]))

Promiedos_parse_match_stats(data) ==
    LET parsed_stats == parsed_stats_loop(data, EmptyDict)
    IN  IF parsed_stats.raised # None THEN parsed_stats
        ELSE Return(MatchStats(parsed_stats.returned[1]))

\* parse_tv_network and parse_main_odds (tvnetwork.py and odds.py, not part of
\* the source tree): the entry as decoded
parse_tv_network(tv) == [network |-> tv]
parse_main_odds(data) == [odds |-> data]

\* the start_time a payload without the key is read with
default_start_time ==
    <<"0", "1", "-", "0", "1", "-", "1", "9", "7", "0", " ", "0", "0", ":", "0", "0">>

\* parse_match decoding start_time with a second, year-first format when the
\* first does not match
parse_match_start_time_fallback(date_str) ==
    LET dt == strptime(date_str)
    IN  IF dt.raised # None /\ Len(date_str) = 16 /\ date_str[5] = "-"
        THEN strptime(SubSeq(date_str, 9, 10) \o <<"-">> \o SubSeq(date_str, 6, 7)
                      \o <<"-">> \o SubSeq(date_str, 1, 4) \o SubSeq(date_str, 11, 16))
        ELSE dt

\* dt = datetime.strptime(date_str, "%d-%m-%Y %H:%M")
parse_match_start_time(date_str) == strptime(date_str)

\* parse_match: the exception of strptime or of parse_scores leaves it; the
\* fields league and players keep the defaults Match declares
parse_match(data) ==
    LET teams_data == Get(data, "teams", <<>>)
        scores_data == Get(data, "scores", <<>>)
        tv_networks_data == Get(data, "tv_networks", <<>>)
        date_str == Get(data, "start_time", default_start_time)
        dt == parse_match_start_time(date_str)
        scores == parse_scores(scores_data)
    IN  IF dt.raised # None THEN Raise(dt.raised[1])
        ELSE IF scores.raised # None THEN Raise(scores.raised[1])
        ELSE Return(
            [id |-> GetOpt(data, "id"),
             stage_round_name |-> GetOpt(data, "stage_round_name"),
             winner |-> GetOpt(data, "winner"),
             scores |-> scores.returned[1],
             teams |-> [i \in DOMAIN teams_data |-> Promiedos_parse_team(teams_data[i])],
             slug |-> Get(data, "url_name", ""),
             status |-> Promiedos_parse_status(Get(data, "status", EmptyDict)),
             start_time |-> timestamp(dt.returned[1]),
             current_time |-> Get(data, "game_time", 0),
             time_to_display |-> Get(data, "game_time_to_display", ""),
             time_status_to_display |-> Get(data, "game_time_status_to_display", ""),
             tv_networks |-> [i \in DOMAIN tv_networks_data |->
                                parse_tv_network(tv_networks_data[i])],
             main_odds |-> parse_main_odds(Get(data, "main_odds", EmptyDict))])

-----------------------------------------------------------------------------
(* esd/fbref/service.py *)

\* parse_matchs (fbref/types/match.py, not part of the source tree): the rows
\* of the document's table, or the failure of reading a document without one
parse_matchs(document) ==
    IF "table" \notin DOMAIN document THEN Raise(Exc("AttributeError", "table"))
    ELSE Return(document["table"])

FBrefService_get_matchs(date, resp) ==
    LET url == Url("matchs", DateOrToday(date))
    IN  IF ~resp.ok THEN Did(Raise(resp.exc), <<url>>)
        ELSE Did(parse_matchs(resp.payload[1]), <<url>>)

-----------------------------------------------------------------------------
(* The defaults the record types declare, keyed by the payload key that fills
   each field, and the field each payload key fills *)

\* TeamScore (team.py): every field defaults to 0
TeamScore_default ==
    [current |-> 0, display |-> 0, period1 |-> 0, period2 |-> 0, normaltime |-> 0]
TeamScore_field ==
    [current |-> "current", display |-> "display", period1 |-> "period1",
     period2 |-> "period2", normaltime |-> "normaltime"]

\* TeamSummary (team.py): the scalar fields
TeamSummary_default ==
    [name |-> "", shortName |-> "", slug |-> "", nameCode |-> "", id |-> 0, entityType |-> ""]
TeamSummary_field ==
    [name |-> "name", shortName |-> "short_name", slug |-> "slug",
     nameCode |-> "name_code", id |-> "id", entityType |-> "entity_type"]

\* TeamColors (team.py)
TeamColors_default == [primary |-> "#000000", secondary |-> "#000000", text |-> "#000000"]
TeamColors_field == [primary |-> "primary", secondary |-> "secondary", text |-> "text"]

\* Country (country.py, not part of the source tree)
Country_default == [name |-> "", alpha2 |-> "", alpha3 |-> ""]
Country_field == [name |-> "name", alpha2 |-> "alpha2", alpha3 |-> "alpha3"]

\* TimeEvent (event.py)
TimeEvent_default == [injuryTime1 |-> 0, injuryTime2 |-> 0, currentPeriodStartTimestamp |-> 0]
TimeEvent_field ==
    [injuryTime1 |-> "first_injury_time", injuryTime2 |-> "second_injury_time",
     currentPeriodStartTimestamp |-> "current_period_start"]

\* RoundInfo (event.py) declares no defaults; parse_round_info supplies them
RoundInfo_default == [round |-> 0, name |-> "n/a", cupRoundType |-> 0]
RoundInfo_field == [round |-> "round", name |-> "name", cupRoundType |-> "cupRoundType"]

\* Event (event.py): the scalar fields with a declared default that is not None
Event_default ==
    [id |-> 0, startTimestamp |-> 0, slug |-> "n/a", coverage |-> 0,
     feedLocked |-> FALSE, finalResultOnly |-> FALSE]
Event_field ==
    [id |-> "id", startTimestamp |-> "start_timestamp", slug |-> "slug",
     coverage |-> "coverage", feedLocked |-> "feed_locked",
     finalResultOnly |-> "final_result_only"]

\* Player (player.py): every field has a declared default
Player_default ==
    [name |-> None, slug |-> None, shortName |-> None, position |-> None,
     jerseyNumber |-> None, height |-> Some(0), preferredFoot |-> None, gender |-> None,
     id |-> Some(0), shirtNumber |-> Some(0), dateOfBirthTimestamp |-> Some(0),
     contractUntilTimestamp |-> Some(0), proposedMarketValue |-> Some(0)]
Player_field ==
    [name |-> "name", slug |-> "slug", shortName |-> "short_name", position |-> "position",
     jerseyNumber |-> "jersey_number", height |-> "height",
     preferredFoot |-> "preferred_foot", gender |-> "gender", id |-> "id",
     shirtNumber |-> "shirt_number", dateOfBirthTimestamp |-> "date_of_birth",
     contractUntilTimestamp |-> "contract_until", proposedMarketValue |-> "market_value"]

-----------------------------------------------------------------------------
(* fbref_stats_collector.py: FBrefStatsFetcher.  Texts the code strips, lowers
   or searches are sequences of characters. *)

\* str.strip(): the text without its leading and trailing whitespace
RECURSIVE lstrip(_)
lstrip(text) ==
    IF text # <<>> /\ Head(text) \in Whitespace THEN lstrip(Tail(text)) ELSE text
RECURSIVE rstrip(_)
rstrip(text) ==
    IF text # <<>> /\ text[Len(text)] \in Whitespace
    THEN rstrip(SubSeq(text, 1, Len(text) - 1)) ELSE text
strip(text) == lstrip(rstrip(text))

\* str.lower()
UpperCase ==
    <<"A", "B", "C", "D", "E", "F", "G", "H", "I", "J", "K", "L", "M",
      "N", "O", "P", "Q", "R", "S", "T", "U", "V", "W", "X", "Y", "Z">>
LowerCase ==
    <<"a", "b", "c", "d", "e", "f", "g", "h", "i", "j", "k", "l", "m",
      "n", "o", "p", "q", "r", "s", "t", "u", "v", "w", "x", "y", "z">>
lower_char(c) ==
    IF \E n \in DOMAIN UpperCase : UpperCase[n] = c
    THEN LowerCase[CHOOSE n \in DOMAIN UpperCase : UpperCase[n] = c]
    ELSE c
lower(text) == [i \in DOMAIN text |-> lower_char(text[i])]

\* str.replace(old, new): the occurrences of old from left to right, without
\* overlap
RECURSIVE replace(_, _, _)
replace(text, old, new) ==
    IF Len(text) < Len(old) THEN text
    ELSE IF SubSeq(text, 1, Len(old)) = old
    THEN new \o replace(SubSeq(text, Len(old) + 1, Len(text)), old, new)
    ELSE <<Head(text)>> \o replace(Tail(text), old, new)

\* the rows of the match log table: a spacer, a header repeated in the body,
\* a match to come (empty or blank score), a match played, and a match played
\* whose row is too short to have its date read
TableRow(shape, position) ==
    CASE shape = "spacer" ->
            [class |-> {"spacer"}, score |-> None, cells |-> 1, date |-> "", id |-> position]
      [] shape = "thead" ->
            [class |-> {"thead"}, score |-> Some(<<"S", "c", "o", "r", "e">>), cells |-> 12,
             date |-> "Date", id |-> position]
      [] shape = "to come" ->
            [class |-> {}, score |-> Some(<<" ">>), cells |-> 12, date |-> "2025-02-01",
             id |-> position]
      [] shape = "played" ->
            [class |-> {}, score |-> Some(<<"2", ":", "1">>), cells |-> 12,
             date |-> "2025-01-15", id |-> position]
      [] shape = "short" ->
            [class |-> {}, score |-> Some(<<"0", ":", "0">>), cells |-> 8,
             date |-> "2025-01-08", id |-> position]

\* parse_match_stats: the date is read from a row of more than nine cells
FBref_parse_match_stats(row) ==
    [date |-> IF row.cells > 9 THEN row.date ELSE "", row |-> row.id]

\* the loop over match_rows, from the row it is at
RECURSIVE match_rows_loop(_, _, _, _)
match_rows_loop(match_rows, count, matches, limit) ==
    IF match_rows = <<>> THEN matches
    ELSE LET row == Head(match_rows)
             match_stats == FBref_parse_match_stats(row)
             added == match_stats.date # ""
             count_after == IF added THEN count + 1 ELSE count
             matches_after == IF added THEN Append(matches, match_stats) ELSE matches
         IN  IF "spacer" \in row.class \/ "thead" \in row.class
             THEN match_rows_loop(Tail(match_rows), count, matches, limit)
             ELSE IF row.score = None \/ strip(row.score[1]) = <<>>
             THEN match_rows_loop(Tail(match_rows), count, matches, limit)
             ELSE IF count_after >= limit THEN matches_after
             ELSE match_rows_loop(Tail(match_rows), count_after, matches_after, limit)

\* get_team_recent_matches: no match without a team URL, without the page or
\* without a table in it; else the loop over the rows of the table
get_team_recent_matches(limit, team_url, fetched, match_rows) ==
    IF team_url = None THEN <<>>
    ELSE IF fetched # "table" THEN <<>>
    ELSE match_rows_loop(match_rows, 0, <<>>, limit)

-----------------------------------------------------------------------------
(* The payloads the parsers are called on *)

MaxEvents == 5

StatusTypes == {"notstarted", "inprogress", "finished"}

\* target_status: a status type, the default description "n/a", or None
Targets == {Some(t) : t \in StatusTypes \cup {"n/a"}} \cup {None}

\* an entry's status object: absent, {} or an object with a type
StatusVariants == {"absent", "empty"} \cup StatusTypes

FullStatus(type) == [code |-> 100, description |-> "Ended", type |-> type]

\* the entry with identifier id and status variant v
FilterEvent(id, v) ==
    IF v = "absent" THEN [id |-> id, slug |-> "a-b"]
    ELSE IF v = "empty" THEN [id |-> id, slug |-> "a-b", status |-> EmptyDict]
    ELSE [id |-> id, slug |-> "a-b", status |-> FullStatus(v)]

\* the lists of at most MaxEvents entries; the i-th entry has identifier i
EventLists ==
    UNION {{[i \in 1..n |-> FilterEvent(i, sv[i])] : sv \in [1..n -> StatusVariants]}
           : n \in 0..MaxEvents}

FullScore == [current |-> 3, display |-> 3, period1 |-> 1, period2 |-> 2, normaltime |-> 3]

FullCountry == [name |-> "Argentina", alpha2 |-> "AR", alpha3 |-> "ARG"]

FullColors == [primary |-> "#0000ff", secondary |-> "#ffff00", text |-> "#ffffff"]

FullTeam ==
    [name |-> "Boca Juniors", shortName |-> "Boca", slug |-> "boca-juniors",
     nameCode |-> "BOC", id |-> 3202, country |-> FullCountry,
     entityType |-> "team", teamColors |-> FullColors]

FullTime == [injuryTime1 |-> 4, injuryTime2 |-> 6, currentPeriodStartTimestamp |-> 1700003600]

FullRoundInfo == [round |-> 7, name |-> "Quarterfinals", cupRoundType |-> 4]

\* an entry with every key the parser reads
FullEvent ==
    [id |-> 12637083, startTimestamp |-> 1700000000, slug |-> "boca-river",
     customId |-> "xYbsAc", feedLocked |-> TRUE, finalResultOnly |-> TRUE,
     coverage |-> 1, time |-> FullTime, homeTeam |-> FullTeam, awayTeam |-> FullTeam,
     homeScore |-> FullScore, awayScore |-> FullScore,
     status |-> FullStatus("finished"), roundInfo |-> FullRoundInfo]

ScalarKeys ==
    {"id", "startTimestamp", "slug", "customId", "feedLocked", "finalResultOnly", "coverage"}

ObjectKeys == {"time", "homeTeam", "awayTeam", "homeScore", "awayScore", "roundInfo"}

\* FullEvent with any subset of its optional top-level keys absent
TopShapes ==
    {Restrict(FullEvent, keep \cup {"status"}) : keep \in SUBSET (ScalarKeys \cup ObjectKeys)}

\* FullEvent with any subset of the keys of one of its sub-objects absent
InnerShapes ==
    UNION {{With(FullEvent, o, Restrict(FullEvent[o], keep)) : keep \in SUBSET DOMAIN FullEvent[o]}
           : o \in ObjectKeys \cup {"status"}}

\* FullEvent with any subset of the keys of a team's country or colours absent
NestedShapes ==
    UNION {{With(FullEvent, t, With(FullTeam, o, Restrict(FullTeam[o], keep)))
               : keep \in SUBSET DOMAIN FullTeam[o]}
           : t \in {"homeTeam", "awayTeam"}, o \in {"country", "teamColors"}}

ShapeEvents == TopShapes \cup InnerShapes \cup NestedShapes

FullPlayer ==
    [name |-> "Edinson Cavani", slug |-> "edinson-cavani", shortName |-> "E. Cavani",
     position |-> "F", jerseyNumber |-> "10", height |-> 184, preferredFoot |-> "Right",
     gender |-> "M", id |-> 20666, shirtNumber |-> 10, dateOfBirthTimestamp |-> 540259200,
     contractUntilTimestamp |-> 1798675200, proposedMarketValue |-> 1500000]

\* FullPlayer with any subset of its keys absent
PlayerShapes == {Restrict(FullPlayer, keep) : keep \in SUBSET DOMAIN FullPlayer}

\* the start_time texts parse_match is called on: a day, a month, a year, a gap,
\* an hour and a minute, each padded or not, in range or not
DayTexts == {<<"0", "1">>, <<"1">>, <<" ", "1">>, <<"2", "9">>, <<"3", "1">>}
MonthTexts == {<<"0", "1">>, <<"2">>, <<"0", "2">>, <<"1", "3">>}
YearTexts == {<<"1", "9", "7", "0">>, <<"2", "0", "2", "4">>, <<"2", "0", "2", "5">>, <<"7", "0">>}
GapTexts == {<<" ">>, <<" ", " ">>, <<"T">>}
HourTexts == {<<"0", "0">>, <<"9">>, <<"2", "3">>, <<"2", "4">>}
MinuteTexts == {<<"0", "0">>, <<"5">>, <<"5", "9">>, <<"6", "0">>}
FieldTexts ==
    {d \o <<"-">> \o m \o <<"-">> \o Y \o gap \o H \o <<":">> \o M :
        d \in DayTexts, m \in MonthTexts, Y \in YearTexts,
        gap \in GapTexts, H \in HourTexts, M \in MinuteTexts}

\* texts of other formats: year first, slashes, with seconds, empty
OtherTexts ==
    {<<"2", "0", "2", "4", "-", "0", "2", "-", "2", "9", " ", "2", "3", ":", "5", "9">>,
     <<"0", "1", "/", "0", "1", "/", "1", "9", "7", "0", " ", "0", "0", ":", "0", "0">>,
     <<"0", "1", "-", "0", "1", "-", "1", "9", "7", "0", " ", "0", "0", ":", "0", "0", ":", "0", "0">>,
     <<>>}
StartTimeTexts == FieldTexts \cup OtherTexts

FullPromiedosTeam ==
    [name |-> "Boca Juniors", short_name |-> "Boca", url_name |-> "boca-juniors",
     id |-> "igg", country_id |-> "a", colors |-> [color |-> "#103f79"], red_cards |-> 1]
FullMatch ==
    [id |-> "edcgcdj", stage_round_name |-> "Fecha 1", winner |-> 1,
     teams |-> <<FullPromiedosTeam, [name |-> "River Plate"]>>,
     scores |-> <<2, 1>>, url_name |-> "boca-juniors-river-plate",
     status |-> [enum |-> 3, name |-> "Finalizado"],
     start_time |-> default_start_time, game_time |-> 90,
     game_time_to_display |-> "Final", game_time_status_to_display |-> "Fin",
     tv_networks |-> <<[name |-> "TyC Sports"]>>, main_odds |-> [options |-> <<>>]]
MatchPayloads ==
    {With(FullMatch, "start_time", text) : text \in StartTimeTexts}
        \cup {Restrict(FullMatch, DOMAIN FullMatch \ {"start_time"}), EmptyDict,
              [start_time |-> default_start_time]}

\* the stat entries parse_match_stats is called on: three labels of the table,
\* two that are not in it (one differs from a table label only in case), each
\* with values and percentages or with the name alone, and an entry without
\* a name
MaxStats == 3
StatLabels == {"Total Remates", "Faltas", "Tarjetas Rojas", "Pases totales", "faltas"}
StatValues == {<<"10", "4">>, <<"3", "3">>}
StatEntries ==
    {[name |-> label, values |-> values, percentages |-> <<"71", "29">>] :
        label \in StatLabels, values \in StatValues}
        \cup {[name |-> label] : label \in StatLabels}
        \cup {[values |-> <<"1", "0">>, percentages |-> <<"100", "0">>]}
StatLists == UNION {[1..n -> StatEntries] : n \in 0..MaxStats}

\* the tables get_team_recent_matches reads, of at most MaxTableRows rows, and
\* the values of --matches
MaxTableRows == 3
MaxMatches == 2
RowShapes == {"spacer", "thead", "to come", "played", "short"}
TeamUrls == {None, Some("https://fbref.com/en/squads/795ca75e")}
Fetches == {"raises", "no table", "table"}
MatchTables ==
    UNION {{[i \in 1..n |-> TableRow(shapes[i], i)] : shapes \in [1..n -> RowShapes]}
           : n \in 0..MaxTableRows}

-----------------------------------------------------------------------------
(* ParseSpec: one call of a parser on a payload *)

ParseInit ==
    /\ NotParseIdle
    /\ parser_out = NotCalled
    /\ \/ /\ parser_fn = "parse_events"
          /\ \/ parser_args \in {<<events, t>> : events \in EventLists, t \in Targets}
             \/ parser_args \in {<<<<e>>, t>> : e \in ShapeEvents, t \in {Some("finished"), None}}
       \/ /\ parser_fn = "parse_player"
          /\ parser_args \in {<<data>> : data \in PlayerShapes}
       \/ /\ parser_fn = "parse_match"
          /\ parser_args \in {<<data>> : data \in MatchPayloads}
       \/ /\ parser_fn = "parse_match_stats"
          /\ parser_args \in {<<data>> : data \in StatLists}
       \/ /\ parser_fn = "get_team_recent_matches"
          /\ parser_args \in {<<limit, team_url, fetched, match_rows>> :
                                limit \in 0..MaxMatches, team_url \in TeamUrls,
                                fetched \in Fetches, match_rows \in MatchTables}

Call_parse_events ==
    /\ parser_fn = "parse_events"
    /\ parser_out = NotCalled
    /\ parser_out' = Return(parse_events(parser_args[1], parser_args[2]))
    /\ UNCHANGED <<parser_fn, parser_args>>
    /\ UNCHANGED not_parse_vars

Call_parse_player ==
    /\ parser_fn = "parse_player"
    /\ parser_out = NotCalled
    /\ parser_out' = parse_player(parser_args[1])
    /\ UNCHANGED <<parser_fn, parser_args>>
    /\ UNCHANGED not_parse_vars

Call_parse_match ==
    /\ parser_fn = "parse_match"
    /\ parser_out = NotCalled
    /\ parser_out' = parse_match(parser_args[1])
    /\ UNCHANGED <<parser_fn, parser_args>>
    /\ UNCHANGED not_parse_vars

Call_parse_match_stats ==
    /\ parser_fn = "parse_match_stats"
    /\ parser_out = NotCalled
    /\ parser_out' = Promiedos_parse_match_stats(parser_args[1])
    /\ UNCHANGED <<parser_fn, parser_args>>
    /\ UNCHANGED not_parse_vars

\* get_team_recent_matches of a fetcher whose max_matches is the first argument:
\* search_team gives the second, the request for the page ends as the third
\* says, and the table of the page has the rows of the fourth
Call_get_team_recent_matches ==
    /\ parser_fn = "get_team_recent_matches"
    /\ parser_out = NotCalled
    /\ parser_out' = Return(get_team_recent_matches(parser_args[1], parser_args[2],
                                                    parser_args[3], parser_args[4]))
    /\ UNCHANGED <<parser_fn, parser_args>>
    /\ UNCHANGED not_parse_vars

ParseNext ==
    \/ Call_parse_events
    \/ Call_parse_player
    \/ Call_parse_match
    \/ Call_parse_match_stats
    \/ Call_get_team_recent_matches

ParseSpec == ParseInit /\ [][ParseNext]_vars

-----------------------------------------------------------------------------
(* The responses the transport gives the services *)

MaxRoster == 2
MaxPayloadEvents == 2

TransportErrors ==
    {Exc("ConnectionError", ""), Exc("HTTPError", "404"), Exc("JSONDecodeError", "")}

\* the transport raises, or gives one of the bodies
Responses(payloads) == {Ok(p) : p \in payloads} \cup {Fail(e) : e \in TransportErrors}

\* a body without the key the service reads
ErrorBody == [error |-> [code |-> 404, message |-> "Not Found"]]

\* the "events" lists of at most MaxPayloadEvents entries
PayloadEventLists == {events \in EventLists : Len(events) <= MaxPayloadEvents}

EventsPayloads == {[events |-> events] : events \in PayloadEventLists} \cup {ErrorBody}

StatisticsPayloads ==
    {[statistics |-> <<[period |-> "ALL", groups |-> <<>>]>>], [statistics |-> <<>>], ErrorBody}

FullTeamDetail ==
    [name |-> "Boca Juniors", shortName |-> "Boca", slug |-> "boca-juniors",
     nameCode |-> "BOC", id |-> 3202, country |-> FullCountry, entityType |-> "team",
     teamColors |-> FullColors, manager |-> [name |-> "Fernando Gago", id |-> 788]]

TeamPayloads ==
    {[team |-> FullTeamDetail], [team |-> Restrict(FullTeamDetail, {"id", "name"})],
     [team |-> EmptyDict], ErrorBody}

OtherPlayer ==
    [name |-> "Ander Herrera", slug |-> "ander-herrera", shortName |-> "A. Herrera",
     position |-> "M", jerseyNumber |-> "21", height |-> 182, preferredFoot |-> "Right",
     gender |-> "M", id |-> 70988, shirtNumber |-> 21, dateOfBirthTimestamp |-> 618969600,
     contractUntilTimestamp |-> 1767139200, proposedMarketValue |-> 900000]

\* a roster entry: a full player, a player without contractUntilTimestamp, a
\* player without proposedMarketValue and jerseyNumber, an entry without "player"
RosterEntries ==
    {[player |-> FullPlayer], [player |-> OtherPlayer],
     [player |-> Restrict(FullPlayer, DOMAIN FullPlayer \ {"contractUntilTimestamp"})],
     [player |-> Restrict(OtherPlayer, DOMAIN OtherPlayer \ {"proposedMarketValue", "jerseyNumber"})],
     [entry |-> "n/a"]}

Rosters == UNION {[1..n -> RosterEntries] : n \in 0..MaxRoster}

PlayersPayloads == {[players |-> roster] : roster \in Rosters} \cup {ErrorBody}

\* a decoded league of the Promiedos payload
League(name) ==
    [name |-> name, id |-> "hc", url_name |-> "liga-profesional",
     games |-> <<[id |-> "edcgcdj", start_time |-> "15-01-2025 21:00"]>>]

LeaguesPayloads ==
    {[leagues |-> <<>>], [leagues |-> <<League("Liga Profesional")>>],
     [leagues |-> <<League("Liga Profesional"), League("MLS")>>], ErrorBody}

Documents ==
    {[table |-> <<>>], [table |-> <<[home |-> "Boca", away |-> "River"]>>],
     [body |-> "no matches"]}

\* the date arguments of Sofascore and FBref: None, "" or a date
OptionalDates == {None, Some(""), Some("2025-02-01")}

PromiedosDates ==
    {today, yesterday, tomorrow,
     <<"2", "0", "2", "5", "-", "0", "1", "-", "1", "5">>,
     <<"1", "5", "-", "0", "1", "-", "2", "0", "2", "5">>,
     <<"2", "0", "2", "5", "/", "0", "1", "/", "1", "5">>,
     <<"n", "o", "w">>,
     <<>>}

EventIds == {12637083, 12637084}
TeamIds == {3202, 3211}

-----------------------------------------------------------------------------
(* Spec: a caller of the three clients, one operation at a time *)

Init ==
    /\ ClientIdle
    /\ NotClientIdle

\* the record of one service call: the transport's response and what it did
ServiceCall(name, resp, did) ==
    [name |-> name, response |-> resp, requests |-> did.requests,
     raised |-> did.raised, returned |-> did.returned]

\* a client operation that delegates to one service call and returns its outcome
Delegate(client, name, args, service, resp, did) ==
    /\ pc' = "idle"
    /\ client_op' = [client |-> client, name |-> name, args |-> args]
    /\ service_calls' = <<ServiceCall(service, resp, did)>>
    /\ outcome' = [raised |-> did.raised, returned |-> did.returned]
    /\ team' = None
    /\ UNCHANGED not_client_vars

SofascoreClient_get_events ==
    \E date \in OptionalDates, live \in BOOLEAN, resp \in Responses(EventsPayloads) :
        /\ pc = "idle"
        /\ IF live
           THEN Delegate("sofascore", "get_events", <<date, live>>, "get_live_events", resp,
                         SofascoreService_get_live_events(resp))
           ELSE Delegate("sofascore", "get_events", <<date, live>>, "get_events", resp,
                         SofascoreService_get_events(date, resp))

SofascoreClient_get_match_stats ==
    \E event_id \in EventIds, resp \in Responses(StatisticsPayloads) :
        /\ pc = "idle"
        /\ Delegate("sofascore", "get_match_stats", <<event_id>>, "get_match_stats", resp,
                    SofascoreService_get_match_stats(event_id, resp))

SofascoreClient_get_team_players ==
    \E team_id \in TeamIds, resp \in Responses(PlayersPayloads) :
        /\ pc = "idle"
        /\ Delegate("sofascore", "get_team_players", <<team_id>>, "get_team_players", resp,
                    SofascoreService_get_team_players(team_id, resp))

\* get_team up to team = self.__service.get_team(team_id): an exception of the
\* call ends the operation
SofascoreClient_get_team_detail ==
    \E team_id \in TeamIds, resp \in Responses(TeamPayloads) :
        LET did == SofascoreService_get_team(team_id, resp)
        IN  /\ pc = "idle"
            /\ client_op' = [client |-> "sofascore", name |-> "get_team", args |-> <<team_id>>]
            /\ service_calls' = <<ServiceCall("get_team", resp, did)>>
            /\ IF did.raised # None
               THEN /\ pc' = "idle"
                    /\ outcome' = Raise(did.raised[1])
                    /\ team' = None
               ELSE /\ pc' = "get_team_players"
                    /\ outcome' = NotCalled
                    /\ team' = did.returned
            /\ UNCHANGED not_client_vars

\* get_team from players = self.__service.get_team_players(team_id) to its end
SofascoreClient_get_team_roster ==
    \E resp \in Responses(PlayersPayloads) :
        LET did == SofascoreService_get_team_players(client_op.args[1], resp)
        IN  /\ pc = "get_team_players"
            /\ pc' = "idle"
            /\ service_calls' = Append(service_calls, ServiceCall("get_team_players", resp, did))
            /\ outcome' = SofascoreClient_get_team_compose(team[1], did)
            /\ team' = None
            /\ UNCHANGED client_op
            /\ UNCHANGED not_client_vars

PromiedosClient_get_events ==
    \E date \in PromiedosDates, resp \in Responses(LeaguesPayloads) :
        /\ pc = "idle"
        /\ Delegate("promiedos", "get_events", <<date>>, "get_events", resp,
                    PromiedosService_get_events(date, resp))

FBrefClient_get_matchs ==
    \E date \in OptionalDates, resp \in Responses(Documents) :
        /\ pc = "idle"
        /\ Delegate("fbref", "get_matchs", <<date>>, "get_matchs", resp,
                    FBrefService_get_matchs(date, resp))

Next ==
    \/ SofascoreClient_get_events
    \/ SofascoreClient_get_match_stats
    \/ SofascoreClient_get_team_players
    \/ SofascoreClient_get_team_detail
    \/ SofascoreClient_get_team_roster
    \/ PromiedosClient_get_events
    \/ FBrefClient_get_matchs

Spec == Init /\ [][Next]_vars

-----------------------------------------------------------------------------
(* ServiceSpec: a sequence of calls on one SofascoreService and one
   PromiedosService *)

MaxServiceCalls == 3

\* the method name of SofascoreService, called with args
SofascoreService_method(name, args, resp) ==
    CASE name = "get_events" -> SofascoreService_get_events(args[1], resp)
      [] name = "get_live_events" -> SofascoreService_get_live_events(resp)
      [] name = "get_match_stats" -> SofascoreService_get_match_stats(args[1], resp)
      [] name = "get_team" -> SofascoreService_get_team(args[1], resp)
      [] name = "get_team_players" -> SofascoreService_get_team_players(args[1], resp)

\* a service that keeps the exception of a failed call in an attribute and
\* raises it again, without a request, on every later call
SofascoreService_call_remembers_failure(self, name, args, resp) ==
    LET did == SofascoreService_method(name, args, resp)
    IN  IF "last_error" \in DOMAIN self
        THEN [self |-> self, did |-> Did(Raise(self["last_error"]), <<>>)]
        ELSE IF did.raised # None
        THEN [self |-> [k \in DOMAIN self \cup {"last_error"} |->
                           IF k = "last_error" THEN did.raised[1] ELSE self[k]],
              did |-> did]
        ELSE [self |-> self, did |-> did]

\* a method of SofascoreService called on the instance self: the methods read
\* self.endpoints and assign no attribute
SofascoreService_call(self, name, args, resp) ==
    [self |-> self, did |-> SofascoreService_method(name, args, resp)]

\* PromiedosService.get_events called on the instance self
PromiedosService_call(self, name, args, resp) ==
    [self |-> self, did |-> PromiedosService_get_events(args[1], resp)]

\* the transport raises, or gives a body without the key, or the body given
ServiceResponses(payload) == {Fail(Exc("ConnectionError", "")), Ok(ErrorBody), Ok(payload)}

\* one call on a service instance, and the record of it
MadeCall(service, name, args, resp) ==
    LET after == IF service = "sofascore"
                 THEN SofascoreService_call(services.sofascore, name, args, resp)
                 ELSE PromiedosService_call(services.promiedos, name, args, resp)
        call == [service |-> service, name |-> name, args |-> args, response |-> resp,
                 requests |-> after.did.requests,
                 raised |-> after.did.raised, returned |-> after.did.returned]
    IN  /\ services' = [services EXCEPT ![service] = after.self]
        /\ first_call' = IF first_call = None THEN Some(call) ELSE first_call
        /\ last_call' = Some(call)
        /\ calls_made' = calls_made + 1
        /\ UNCHANGED not_service_vars

ServiceInit ==
    /\ ServiceIdle
    /\ NotServiceIdle

SofascoreService_call_get_events ==
    \E date \in OptionalDates, resp \in ServiceResponses([events |-> <<>>]) :
        /\ calls_made < MaxServiceCalls
        /\ MadeCall("sofascore", "get_events", <<date>>, resp)

SofascoreService_call_get_live_events ==
    \E resp \in ServiceResponses([events |-> <<>>]) :
        /\ calls_made < MaxServiceCalls
        /\ MadeCall("sofascore", "get_live_events", <<>>, resp)

SofascoreService_call_get_match_stats ==
    \E event_id \in EventIds, resp \in ServiceResponses([statistics |-> <<>>]) :
        /\ calls_made < MaxServiceCalls
        /\ MadeCall("sofascore", "get_match_stats", <<event_id>>, resp)

SofascoreService_call_get_team ==
    \E team_id \in TeamIds, resp \in ServiceResponses([team |-> FullTeamDetail]) :
        /\ calls_made < MaxServiceCalls
        /\ MadeCall("sofascore", "get_team", <<team_id>>, resp)

SofascoreService_call_get_team_players ==
    \E team_id \in TeamIds, resp \in ServiceResponses([players |-> <<[player |-> FullPlayer]>>]) :
        /\ calls_made < MaxServiceCalls
        /\ MadeCall("sofascore", "get_team_players", <<team_id>>, resp)

PromiedosService_call_get_events ==
    \E date \in {today, <<"n", "o", "w">>, <<"2", "0", "2", "5", "-", "0", "1", "-", "1", "5">>},
       resp \in ServiceResponses([leagues |-> <<League("MLS")>>]) :
        /\ calls_made < MaxServiceCalls
        /\ MadeCall("promiedos", "get_events", <<date>>, resp)

ServiceNext ==
    \/ SofascoreService_call_get_events
    \/ SofascoreService_call_get_live_events
    \/ SofascoreService_call_get_match_stats
    \/ SofascoreService_call_get_team
    \/ SofascoreService_call_get_team_players
    \/ PromiedosService_call_get_events

ServiceSpec == ServiceInit /\ [][ServiceNext]_vars

-----------------------------------------------------------------------------
(* run_stats_collector.py: get_match_statistics_with_retry, the wrapper that
   process_stats_collection installs around get_match_statistics.  What the
   wrapper returns may be None, so it is carried as None or Some(stats). *)

MaxRetries == 3

\* the values --max-retries and --retry-delay are given
RetryLimits == 0..MaxRetries
RetryDelays == {0, 5}

\* get_random_delay(): a number of seconds from 1 up to 3, in whole seconds
RandomDelays == {1, 2}

\* what get_match_statistics returns for a match, and what it raises
MatchStatistics ==
    {[match_date |-> "2025-01-15", opponent |-> "River Plate", goals_scored |-> 2,
      goals_conceded |-> 1],
     [match_date |-> "2025-01-08", opponent |-> "Racing", goals_scored |-> 0,
      goals_conceded |-> 0]}
StatisticsErrors == {Exc("HTTPError", "403 Forbidden"), Exc("TimeoutError", "timed out")}

\* the entries of the log
Called(n, out) ==
    [event |-> "call", attempt |-> n, raised |-> out.raised, returned |-> out.returned]
Slept(seconds) == [event |-> "sleep", seconds |-> seconds]

\* the except block sleeping after the last attempt as after the others
on_exception_always_sleeps(n, limit, actual_delay) ==
    IF n < limit - 1
    THEN [sleeps |-> <<Slept(actual_delay)>>, returns |-> None]
    ELSE [sleeps |-> <<Slept(actual_delay)>>, returns |-> Some(Some(EmptyDict))]

\* the except block of attempt n: sleep and go on to the next attempt, or,
\* after the last attempt, return {} without sleeping
on_exception(n, limit, actual_delay) ==
    IF n < limit - 1
    THEN [sleeps |-> <<Slept(actual_delay)>>, returns |-> None]
    ELSE [sleeps |-> <<>>, returns |-> Some(Some(EmptyDict))]

RetryInit ==
    /\ NotRetryIdle
    /\ max_retries \in RetryLimits
    /\ retry_delay \in RetryDelays
    /\ attempt = 0
    /\ retry_log = <<>>
    /\ retry_result = NotCalled

\* an attempt whose call returns: the wrapper returns what it returned
attempt_returns ==
    \E stats \in MatchStatistics :
        /\ retry_result = NotCalled
        /\ attempt < max_retries
        /\ retry_log' = Append(retry_log, Called(attempt, Return(stats)))
        /\ retry_result' = Return(Some(stats))
        /\ UNCHANGED <<max_retries, retry_delay, attempt>>
        /\ UNCHANGED not_retry_vars

\* an attempt whose call raises: the except block
attempt_raises ==
    \E exc \in StatisticsErrors, random \in RandomDelays :
        LET handled == on_exception(attempt, max_retries, retry_delay + random)
        IN  /\ retry_result = NotCalled
            /\ attempt < max_retries
            /\ retry_log' = Append(retry_log, Called(attempt, Raise(exc))) \o handled.sleeps
            /\ IF handled.returns = None
               THEN /\ attempt' = attempt + 1
                    /\ UNCHANGED retry_result
               ELSE /\ retry_result' = Return(handled.returns[1])
                    /\ UNCHANGED attempt
            /\ UNCHANGED <<max_retries, retry_delay>>
            /\ UNCHANGED not_retry_vars

\* range(max_retries) is used up without a return: the function ends and the
\* caller gets None
loop_ends ==
    /\ retry_result = NotCalled
    /\ ~(attempt < max_retries)
    /\ retry_result' = Return(None)
    /\ UNCHANGED <<max_retries, retry_delay, attempt, retry_log>>
    /\ UNCHANGED not_retry_vars

RetryNext == attempt_returns \/ attempt_raises \/ loop_ends

RetrySpec == RetryInit /\ [][RetryNext]_vars

-----------------------------------------------------------------------------
(* esd/stats/team_stats.py: the loops of TeamStatsCollector.  The log holds
   the network calls, each with the row, the team and the match it is made
   for (match 0: the calls _process_team makes before its loop), and the
   sleeps. *)

MaxFixtures == 2
MaxRecentMatches == 2

Requested(row, team_side, match_index) ==
    [event |-> "request", fixture |-> row, side |-> team_side, match |-> match_index]
\* time.sleep(1)
Sleeps == [event |-> "sleep", seconds |-> 1]

\* what follows an iteration of the loop over recent_matches: the sleep at the
\* end of the body, which the continue of the except block skips
after_match(succeeded) == IF succeeded THEN <<Sleeps>> ELSE <<>>

CollectInit ==
    /\ NotCollectIdle
    /\ fixtures \in 0..MaxFixtures
    /\ fixture = 1
    /\ side = "home"
    /\ collect_pc = (IF fixtures = 0 THEN "done" ELSE "team")
    /\ recent_matches = 0
    /\ match = 1
    /\ collect_log = <<>>

\* _process_team up to its loop: the search and the recent matches; a search
\* that raises or finds no team, or no recent match, ends it with None
process_team_starts ==
    \E searched \in {"raises", "no team", "found"}, found \in 0..MaxRecentMatches :
        /\ collect_pc = "team"
        /\ collect_log' = Append(collect_log, Requested(fixture, side, 0))
        /\ recent_matches' = (IF searched = "found" THEN found ELSE 0)
        /\ match' = 1
        /\ collect_pc' = "matches"
        /\ UNCHANGED <<fixtures, fixture, side>>
        /\ UNCHANGED not_collect_vars

\* one iteration of for match in recent_matches: get_match_statistics returns
\* and the body sleeps, or it raises and the except block continues
process_match ==
    \E succeeded \in BOOLEAN :
        /\ collect_pc = "matches"
        /\ match <= recent_matches
        /\ collect_log' = Append(collect_log, Requested(fixture, side, match))
                              \o after_match(succeeded)
        /\ match' = match + 1
        /\ UNCHANGED <<fixtures, fixture, side, collect_pc, recent_matches>>
        /\ UNCHANGED not_collect_vars

\* _process_team returns; collect_stats_for_teams goes on to the away team or
\* to the end of the row
process_team_returns ==
    /\ collect_pc = "matches"
    /\ match > recent_matches
    /\ IF side = "home"
       THEN side' = "away" /\ collect_pc' = "team"
       ELSE side' = "away" /\ collect_pc' = "row end"
    /\ UNCHANGED <<fixtures, fixture, recent_matches, match, collect_log>>
    /\ UNCHANGED not_collect_vars

\* the end of the body of for idx, fixture in fixtures_df.iterrows(): the sleep,
\* then the next row or the return
fixture_ends ==
    /\ collect_pc = "row end"
    /\ collect_log' = Append(collect_log, Sleeps)
    /\ fixture' = fixture + 1
    /\ side' = "home"
    /\ collect_pc' = (IF fixture < fixtures THEN "team" ELSE "done")
    /\ UNCHANGED <<fixtures, recent_matches, match>>
    /\ UNCHANGED not_collect_vars

CollectNext ==
    \/ process_team_starts
    \/ process_match
    \/ process_team_returns
    \/ fixture_ends

CollectSpec == CollectInit /\ [][CollectNext]_vars

-----------------------------------------------------------------------------
(* save_stats_to_csv of TeamStatsCollector (esd/stats/team_stats.py), of
   FixtureStatsCollector (fbref_stats_collector.py) and of
   FixtureStatisticsGenerator (generate_team_stats.py) *)

MaxRows == 2

\* the keys a row of statistics may have, in the order sorted() gives strings
StatKeys == <<"avg_goals_scored", "team_name", "wins">>
StatKeySet == {StatKeys[i] : i \in DOMAIN StatKeys}
StatValue(key) ==
    CASE key = "avg_goals_scored" -> "1.5"
      [] key = "team_name" -> "Boca Juniors"
      [] key = "wins" -> "3"

\* the lists of at most MaxRows rows, each a dict over some of the keys
StatRows == {[key \in keys |-> StatValue(key)] : keys \in SUBSET StatKeySet}
StatRowLists == UNION {[1..n -> StatRows] : n \in 0..MaxRows}

\* every key a row of statistics may have, in the order sorted() gives strings
KeyOrder ==
    <<"avg_goals_scored", "away_avg_goals_conceded", "away_avg_goals_scored",
      "away_form_summary", "away_matches_analyzed", "away_recent_match_1_date",
      "away_recent_match_1_opponent", "away_recent_match_1_result",
      "away_recent_match_1_score", "away_recent_match_2_date",
      "away_recent_match_2_opponent", "away_recent_match_2_result",
      "away_recent_match_2_score", "away_recent_match_3_date",
      "away_recent_match_3_opponent", "away_recent_match_3_result",
      "away_recent_match_3_score", "away_team", "away_win_percentage",
      "draw_probability", "fixture_id", "home_avg_goals_conceded",
      "home_avg_goals_scored", "home_form_summary", "home_matches_analyzed",
      "home_recent_match_1_date", "home_recent_match_1_opponent",
      "home_recent_match_1_result", "home_recent_match_1_score",
      "home_recent_match_2_date", "home_recent_match_2_opponent",
      "home_recent_match_2_result", "home_recent_match_2_score",
      "home_recent_match_3_date", "home_recent_match_3_opponent",
      "home_recent_match_3_result", "home_recent_match_3_score", "home_team",
      "home_win_percentage", "is_home", "league", "loss_probability", "match_date",
      "opponent_name", "status", "team_name", "win_probability", "wins">>

\* sorted(list(all_fields))
RECURSIVE sorted_from(_, _)
sorted_from(keys, i) ==
    IF i > Len(KeyOrder) THEN <<>>
    ELSE (IF KeyOrder[i] \in keys THEN <<KeyOrder[i]>> ELSE <<>>) \o sorted_from(keys, i + 1)
sorted(keys) == sorted_from(keys, 1)

\* the fields taken from the first row alone
all_fields_of_first_row(stats) == DOMAIN stats[1]

\* all_fields: the update of a set with the keys of every row
all_fields(stats) == UNION {DOMAIN stats[i] : i \in DOMAIN stats}

\* csv.DictWriter with these fieldnames: writeheader, then writerows, a key a
\* row lacks written as the empty string
DictWriter(fieldnames, stats) ==
    [header |-> fieldnames,
     rows |-> [i \in DOMAIN stats |->
                 [n \in DOMAIN fieldnames |-> Get(stats[i], fieldnames[n], "")]]]

\* the path written: output_file, or a name made of the class's prefix and
\* the time
OutputPath(collector, output_file) ==
    IF output_file # None THEN output_file[1]
    ELSE IF collector = "TeamStatsCollector" THEN "match_stats/team_stats_20250115_120000.csv"
    ELSE IF collector = "FixtureStatisticsGenerator"
    THEN "stats_output/team_stats_20250115_120000.csv"
    ELSE "stats_output/fbref_team_stats_20250115_120000.csv"

\* save_stats_to_csv: nothing is written for an empty list; open() may fail,
\* which TeamStatsCollector lets out and the two other classes turn into ""
save_stats_to_csv(collector, stats, output_file, files, writable) ==
    IF stats = <<>> THEN [files |-> files, out |-> Return("")]
    ELSE LET path == OutputPath(collector, output_file)
             written == DictWriter(sorted(all_fields(stats)), stats)
         IN  IF writable
             THEN [files |-> [f \in DOMAIN files \cup {path} |->
                                 IF f = path THEN written ELSE files[f]],
                   out |-> Return(path)]
             ELSE IF collector = "TeamStatsCollector"
             THEN [files |-> files, out |-> Raise(Exc("OSError", path))]
             ELSE [files |-> files, out |-> Return("")]

CsvInit ==
    /\ NotCsvIdle
    /\ csv_collector \in {"TeamStatsCollector", "FixtureStatsCollector"}
    /\ csv_args \in {<<stats, output_file>> :
                        stats \in StatRowLists, output_file \in {None, Some("stats.csv")}}
    /\ csv_files = EmptyDict
    /\ csv_returned = NotCalled

call_save_stats_to_csv ==
    \E writable \in BOOLEAN :
        LET did == save_stats_to_csv(csv_collector, csv_args[1], csv_args[2],
                                     csv_files, writable)
        IN  /\ csv_returned = NotCalled
            /\ csv_files' = did.files
            /\ csv_returned' = did.out
            /\ UNCHANGED <<csv_collector, csv_args>>
            /\ UNCHANGED not_csv_vars

CsvNext == call_save_stats_to_csv

CsvSpec == CsvInit /\ [][CsvNext]_vars

-----------------------------------------------------------------------------
(* fbref_stats_collector.py: FBrefStatsFetcher.search_team and its cache of
   team URLs.  A path (the id of a match, the href of a link) is the sequence
   of its parts between slashes, as split("/") gives them. *)

\* _clean_team_name
clean_team_name(team_name) ==
    strip(replace(replace(lower(strip(team_name)), <<"f", "c">>, <<>>),
                  <<" ", " ">>, <<" ">>))

\* sub in text
Contains(text, sub) ==
    \E i \in 0..(Len(text) - Len(sub)) : SubSeq(text, i + 1, i + Len(sub)) = sub

\* "/segment/" in path: a part between two slashes
HasSegment(parts, segment) ==
    \E p \in 2..(Len(parts) - 1) : parts[p] = segment

\* parts.index(part), counted from one
IndexOf(parts, part) ==
    CHOOSE p \in 1..Len(parts) :
        parts[p] = part /\ \A q \in 1..(p - 1) : parts[q] # part

\* the first part that is a segment
SegmentIndex(parts, segment) ==
    CHOOSE p \in 2..(Len(parts) - 1) :
        parts[p] = segment /\ \A q \in 2..(p - 1) : parts[q] # segment

\* the URL of the match logs of a squad
match_logs_url(team_id) ==
    <<"https://fbref.com/en/squads/", team_id, "/all_comps/Match-Logs-All-Competitions">>

\* the URL made from the id of a listed match, None when the id gives none
match_team_url(listed_match) ==
    IF listed_match.id = None THEN None
    ELSE IF ~HasSegment(listed_match.id[1], "matches") THEN None
    ELSE IF IndexOf(listed_match.id[1], "matches") - 1 < 1 THEN None
    ELSE Some(match_logs_url(listed_match.id[1][IndexOf(listed_match.id[1], "matches") - 1]))

\* the loop over the matches the ESD client lists
RECURSIVE team_url_from_matches(_, _)
team_url_from_matches(clean_name, matches) ==
    IF matches = <<>> THEN None
    ELSE LET listed_match == Head(matches)
         IN  IF /\ Contains(clean_team_name(listed_match.home_team), clean_name)
                /\ match_team_url(listed_match) # None
             THEN match_team_url(listed_match)
             ELSE IF /\ Contains(clean_team_name(listed_match.away_team), clean_name)
                     /\ match_team_url(listed_match) # None
             THEN match_team_url(listed_match)
             ELSE team_url_from_matches(clean_name, Tail(matches))

\* team_urls: the hrefs of the search results that link to a squad and name
\* the team
RECURSIVE team_urls(_, _)
team_urls(clean_name, search_results) ==
    IF search_results = <<>> THEN <<>>
    ELSE LET result == Head(search_results)
             rest == team_urls(clean_name, Tail(search_results))
         IN  IF result.link = None THEN rest
             ELSE IF result.link[1].href = None THEN rest
             ELSE IF /\ HasSegment(result.link[1].href[1], "squads")
                     /\ Contains(clean_team_name(lower(result.text)), clean_name)
             THEN <<result.link[1].href[1]>> \o rest
             ELSE rest

\* stats_url: the team id is the part after the first "/squads/"
stats_url(href) == match_logs_url(href[SegmentIndex(href, "squads") + 1])

\* search_team without the look into the cache
search_team_without_cache_check(cache, use_esd, team_name, listed, searched) ==
    LET clean_name == clean_team_name(team_name)
        from_matches == IF use_esd /\ listed.raised = None
                        THEN team_url_from_matches(clean_name, listed.returned[1])
                        ELSE None
        listing == IF use_esd THEN <<"get_matchs">> ELSE <<>>
    IN  IF from_matches # None
        THEN [returned |-> from_matches, requests |-> listing,
              cache |-> SetItem(cache, clean_name, from_matches[1])]
        ELSE IF searched.raised # None
        THEN [returned |-> None, requests |-> listing \o <<"search">>, cache |-> cache]
        ELSE IF team_urls(clean_name, searched.returned[1]) # <<>>
        THEN LET url == stats_url(team_urls(clean_name, searched.returned[1])[1])
             IN  [returned |-> Some(url), requests |-> listing \o <<"search">>,
                  cache |-> SetItem(cache, clean_name, url)]
        ELSE [returned |-> None, requests |-> listing \o <<"search">>, cache |-> cache]

\* search_team on a fetcher whose cache is given: listed is what get_matchs of
\* the ESD client does when called, searched what the search request does.
\* The result is what is returned, the requests made and the cache after.
search_team(cache, use_esd, team_name, listed, searched) ==
    LET clean_name == clean_team_name(team_name)
        from_matches == IF use_esd /\ listed.raised = None
                        THEN team_url_from_matches(clean_name, listed.returned[1])
                        ELSE None
        listing == IF use_esd THEN <<"get_matchs">> ELSE <<>>
    IN  IF clean_name \in DOMAIN cache
        THEN [returned |-> Some(cache[clean_name]), requests |-> <<>>, cache |-> cache]
        ELSE IF from_matches # None
        THEN [returned |-> from_matches, requests |-> listing,
              cache |-> SetItem(cache, clean_name, from_matches[1])]
        ELSE IF searched.raised # None
        THEN [returned |-> None, requests |-> listing \o <<"search">>, cache |-> cache]
        ELSE IF team_urls(clean_name, searched.returned[1]) # <<>>
        THEN LET url == stats_url(team_urls(clean_name, searched.returned[1])[1])
             IN  [returned |-> Some(url), requests |-> listing \o <<"search">>,
                  cache |-> SetItem(cache, clean_name, url)]
        ELSE [returned |-> None, requests |-> listing \o <<"search">>, cache |-> cache]

-----------------------------------------------------------------------------
(* SearchSpec: a sequence of calls of search_team on one FBrefStatsFetcher *)

MaxSearches == 3
MaxListed == 1

Boca == <<"B", "o", "c", "a">>
River == <<"R", "i", "v", "e", "r">>

\* the names searched for: two of them clean to the same key
TeamNames == {Boca, <<" ", "B", "O", "C", "A", " ", " ", "F", "C">>, River}

\* the matches the ESD client may list
ListedMatches ==
    {[home_team |-> Boca, away_team |-> River,
      id |-> Some(<<"", "en", "matches", "0a1b", "Boca-River">>)],
     [home_team |-> River, away_team |-> Boca, id |-> None]}

\* the results the search page may show
SearchResults ==
    {[text |-> Boca,
      link |-> Some([href |-> Some(<<"", "en", "squads", "795ca75e", "Boca-Stats">>)])],
     [text |-> Boca,
      link |-> Some([href |-> Some(<<"", "en", "players", "795ca75e", "Boca">>)])]}

ListsOf(items, longest) == UNION {[1..n -> items] : n \in 0..longest}

\* what get_matchs and the search request may do
Listings ==
    {Raise(Exc("Exception", "get_matchs"))}
        \cup {Return(matches) : matches \in ListsOf(ListedMatches, MaxListed)}
Searches ==
    {Raise(Exc("Exception", "search"))}
        \cup {Return(results) : results \in ListsOf(SearchResults, MaxListed)}

\* __init__: an empty cache; USE_ESD_CLIENT is fixed when the module is loaded
SearchInit ==
    /\ NotSearchIdle
    /\ use_esd_client \in BOOLEAN
    /\ team_url_cache = EmptyDict
    /\ search_log = <<>>

call_search_team ==
    /\ Len(search_log) < MaxSearches
    /\ \E team_name \in TeamNames, listed \in Listings, searched \in Searches :
          LET call == search_team(team_url_cache, use_esd_client, team_name,
                                  listed, searched)
          IN  /\ team_url_cache' = call.cache
              /\ search_log' = Append(search_log,
                                      [team_name |-> team_name,
                                       requests |-> call.requests,
                                       returned |-> call.returned,
                                       cache |-> call.cache])
    /\ UNCHANGED use_esd_client
    /\ UNCHANGED not_search_vars

SearchNext == call_search_team

SearchSpec == SearchInit /\ [][SearchNext]_vars

-----------------------------------------------------------------------------
(* fbref_stats_collector.py: FixtureStatsCollector.  fixtures_df is the list
   of its rows, each a dict over the columns of the frame.  Averages are in
   hundredths.  Of the statistics of a match the model keeps the goals and
   the result; the other ones are summed and averaged the same way. *)

\* dict.update(other)
Update(dict, other) ==
    [k \in DOMAIN dict \cup DOMAIN other |->
        IF k \in DOMAIN other THEN other[k] ELSE dict[k]]

\* {f"{prefix}{k}": v for k, v in dict.items()}
Prefixed(prefix, dict) ==
    [k \in {prefix \o j : j \in DOMAIN dict} |->
        dict[CHOOSE j \in DOMAIN dict : prefix \o j = k]]

\* str(n) for the small numbers that index rows and recent matches
NumberTexts == <<"0", "1", "2", "3", "4", "5", "6", "7", "8", "9">>
str(n) == NumberTexts[n + 1]

\* the sum of one statistic over the matches
RECURSIVE SumOf(_, _)
SumOf(matches, key) ==
    IF matches = <<>> THEN 0 ELSE Head(matches)[key] + SumOf(Tail(matches), key)

\* the number of matches with this result
CountOf(matches, result) ==
    Cardinality({i \in DOMAIN matches : matches[i].result = result})

\* round(numerator / denominator, 2) in hundredths: the nearest hundredth,
\* which is what round gives as long as no quotient lies halfway (no
\* denominator below 8 has one)
round2(numerator, denominator) ==
    (200 * numerator + denominator) \div (2 * denominator)

\* form_summary: the first letter of the result of each of the first five
\* matches that has one
form_summary(team_matches) ==
    LET first == SubSeq(team_matches, 1,
                        IF Len(team_matches) < 5 THEN Len(team_matches) ELSE 5)
        HasResult(m) == m.result # ""
        with_result == SelectSeq(first, HasResult)
    IN  [i \in DOMAIN with_result |-> with_result[i].result]

\* FBrefStatsFetcher.calculate_team_averages
calculate_team_averages(team_matches) ==
    IF team_matches = <<>>
    THEN [matches_analyzed |-> 0, avg_goals_scored |-> 0, avg_goals_conceded |-> 0,
          win_percentage |-> 0, form_summary |-> <<>>]
    ELSE LET num_matches == Len(team_matches)
         IN  [matches_analyzed |-> num_matches,
              avg_goals_scored |->
                  round2(SumOf(team_matches, "goals_scored"), num_matches),
              avg_goals_conceded |->
                  round2(SumOf(team_matches, "goals_conceded"), num_matches),
              win_percentage |->
                  round2(CountOf(team_matches, "W") * 100, num_matches),
              form_summary |-> form_summary(team_matches)]

\* collect_team_stats: fetched is what get_team_recent_matches does for the
\* team.  The averages come back as an option, for {} to be told from None.
collect_team_stats(fetched) ==
    IF fetched.raised # None
    THEN [avg_stats |-> EmptyDict, recent_matches |-> <<>>]
    ELSE [avg_stats |-> calculate_team_averages(fetched.returned[1]),
          recent_matches |-> fetched.returned[1]]

\* match_details of a row of the frame whose index is given
match_details(fixture_row, index) ==
    [fixture_id |-> str(index),
     match_date |-> Get(fixture_row, "match_date", Get(fixture_row, "date", "")),
     league |-> Get(fixture_row, "league", Get(fixture_row, "tournament_name", "")),
     home_team |-> fixture_row["home_team"],
     away_team |-> fixture_row["away_team"],
     status |-> Get(fixture_row, "status", "Scheduled")]

\* the fields of one recent match, under the prefix of its place
recent_match_fields(prefix, recent_match) ==
    [k \in {prefix \o "_date", prefix \o "_opponent", prefix \o "_result",
            prefix \o "_score"} |->
        IF k = prefix \o "_date" THEN Get(recent_match, "date", "")
        ELSE IF k = prefix \o "_opponent" THEN Get(recent_match, "opponent", "")
        ELSE IF k = prefix \o "_result" THEN Get(recent_match, "result", "")
        ELSE str(Get(recent_match, "goals_scored", 0)) \o "-"
                 \o str(Get(recent_match, "goals_conceded", 0))]

\* the loop over recent_matches[:3], from the i-th match
RECURSIVE with_recent_matches(_, _, _, _)
with_recent_matches(stats, side_prefix, team_matches, i) ==
    IF i > Len(team_matches) \/ i > 3 THEN stats
    ELSE with_recent_matches(
             Update(stats, recent_match_fields(side_prefix \o "recent_match_" \o str(i),
                                               team_matches[i])),
             side_prefix, team_matches, i + 1)

\* home_fixture_stats and away_fixture_stats of a fixture
fixture_stats_of(details, team_name, opponent_name, is_home, collected) ==
    LET side_prefix == IF is_home THEN "home_" ELSE "away_"
        named == Update(details, [team_name |-> team_name,
                                  opponent_name |-> opponent_name,
                                  is_home |-> is_home])
        averaged == Update(named, Prefixed(side_prefix, collected.avg_stats))
    IN  with_recent_matches(averaged, side_prefix, collected.recent_matches, 1)

\* the loop of process_fixtures from the row at place index (the frame's index
\* counts from zero).  A row without a team column raises KeyError; any other
\* exception from the body of the loop is interrupted_at, the place of the row
\* it is raised for (0: none).  Both end the loop with the rows made so far.
RECURSIVE FBref_fixtures_loop(_, _, _, _, _)
FBref_fixtures_loop(rows, index, fetches, fixture_stats, interrupted_at) ==
    IF index > Len(rows) THEN fixture_stats
    ELSE IF {"home_team", "away_team"} \ DOMAIN rows[index] # {} THEN fixture_stats
    ELSE IF interrupted_at = index THEN fixture_stats
    ELSE LET fixture_row == rows[index]
             details == match_details(fixture_row, index - 1)
             home == collect_team_stats(fetches[2 * index - 1])
             away == collect_team_stats(fetches[2 * index])
             home_fixture_stats ==
                 fixture_stats_of(details, fixture_row["home_team"],
                                  fixture_row["away_team"], TRUE, home)
             away_fixture_stats ==
                 fixture_stats_of(details, fixture_row["away_team"],
                                  fixture_row["home_team"], FALSE, away)
         IN  FBref_fixtures_loop(rows, index + 1, fetches,
                                 fixture_stats \o <<home_fixture_stats, away_fixture_stats>>,
                                 interrupted_at)

\* process_fixtures giving up every row when one fixture fails
FBref_process_fixtures_all_or_nothing(frame, fetches, interrupted_at) ==
    IF frame.raised # None THEN <<>>
    ELSE LET made == FBref_fixtures_loop(frame.returned[1], 1, fetches, <<>>,
                                         interrupted_at)
         IN  IF Len(made) = 2 * Len(frame.returned[1]) THEN made ELSE <<>>

\* FixtureStatsCollector.process_fixtures: frame is what read_fixtures does
FBref_process_fixtures(frame, fetches, interrupted_at) ==
    IF frame.raised # None THEN <<>>
    ELSE FBref_fixtures_loop(frame.returned[1], 1, fetches, <<>>, interrupted_at)

-----------------------------------------------------------------------------
(* generate_team_stats.py: TeamStatisticsGenerator and
   FixtureStatisticsGenerator, the offline generator.  What _generate_stat
   makes of a team name is a hash the model does not compute: the rounded
   goals of a generated match are an input, and the statistics and
   probabilities of a team are one value. *)

\* datetime.now().replace(day=day): ValueError for a day the month lacks
replace_day(now, day) ==
    IF day < 1 \/ day > days_in_month(now.year, now.month)
    THEN Raise(Exc("ValueError", "day is out of range for month"))
    ELSE Return([year |-> now.year, month |-> now.month, day |-> day])

\* the opponent drawn until it differs from the team's name
Opponent(team_name) ==
    IF team_name = "West United" THEN "North City" ELSE "West United"

\* the loop of generate_match_results from i, with the matches made so far
RECURSIVE generated_from(_, _, _, _, _, _)
generated_from(team_name, num_matches, now, goals, i, matches) ==
    IF i >= num_matches THEN Return(matches)
    ELSE LET goals_scored == goals.scored
             goals_conceded == goals.conceded
             result == IF goals_scored > goals_conceded THEN "W"
                       ELSE IF goals_scored < goals_conceded THEN "L" ELSE "D"
             date == replace_day(now, now.day - i - 1)
         IN  IF date.raised # None THEN date
             ELSE generated_from(team_name, num_matches, now, goals, i + 1,
                                 Append(matches,
                                        [date |-> date.returned[1],
                                         opponent |-> Opponent(team_name),
                                         result |-> result,
                                         goals_scored |-> goals_scored,
                                         goals_conceded |-> goals_conceded]))

\* TeamStatisticsGenerator.generate_match_results at the time now
generate_match_results(team_name, num_matches, now, goals) ==
    generated_from(team_name, num_matches, now, goals, 0, <<>>)

\* get_team_stats
get_team_stats(team_name) ==
    [matches_analyzed |-> 7, avg_goals_scored |-> 175, avg_goals_conceded |-> 120,
     win_percentage |-> 6000, form_summary |-> <<"W", "W", "D", "L", "W">>]

\* generate_match_probability
generate_match_probability(home_stats, away_stats) ==
    [home_win |-> 4500, draw |-> 2500, away_win |-> 3000]

\* a row of the generator: the fields of fixture_stats_of and the
\* probabilities
generated_fixture_stats(details, team_name, opponent_name, is_home, team_stats, team_matches, match_probs) ==
    LET side_prefix == IF is_home THEN "home_" ELSE "away_"
        named == Update(details,
                        [team_name |-> team_name,
                         opponent_name |-> opponent_name,
                         is_home |-> is_home,
                         win_probability |->
                             IF is_home THEN match_probs.home_win ELSE match_probs.away_win,
                         draw_probability |-> match_probs.draw,
                         loss_probability |->
                             IF is_home THEN match_probs.away_win ELSE match_probs.home_win])
        averaged == Update(named, Prefixed(side_prefix, team_stats))
    IN  with_recent_matches(averaged, side_prefix, team_matches, 1)

\* the loop of FixtureStatisticsGenerator.process_fixtures from the row at
\* place index: a KeyError for a missing team column, or the ValueError of
\* generate_match_results, ends it with the rows made so far
RECURSIVE Generator_fixtures_loop(_, _, _, _, _)
Generator_fixtures_loop(rows, index, now, goals, fixture_stats) ==
    IF index > Len(rows) THEN fixture_stats
    ELSE IF {"home_team", "away_team"} \ DOMAIN rows[index] # {} THEN fixture_stats
    ELSE LET fixture_row == rows[index]
             details == match_details(fixture_row, index - 1)
             home_stats == get_team_stats(fixture_row["home_team"])
             home_recent_matches ==
                 generate_match_results(fixture_row["home_team"], 3, now, goals)
             away_stats == get_team_stats(fixture_row["away_team"])
             away_recent_matches ==
                 generate_match_results(fixture_row["away_team"], 3, now, goals)
             match_probs == generate_match_probability(home_stats, away_stats)
         IN  IF home_recent_matches.raised # None \/ away_recent_matches.raised # None
             THEN fixture_stats
             ELSE Generator_fixtures_loop(
                      rows, index + 1, now, goals,
                      fixture_stats \o
                          <<generated_fixture_stats(
                                details, fixture_row["home_team"],
                                fixture_row["away_team"], TRUE, home_stats,
                                home_recent_matches.returned[1], match_probs),
                            generated_fixture_stats(
                                details, fixture_row["away_team"],
                                fixture_row["home_team"], FALSE, away_stats,
                                away_recent_matches.returned[1], match_probs)>>)

\* FixtureStatisticsGenerator.process_fixtures
Generator_process_fixtures(frame, now, goals) ==
    IF frame.raised # None THEN <<>>
    ELSE Generator_fixtures_loop(frame.returned[1], 1, now, goals, <<>>)

\* run giving the path whether or not the file could be written
run_ignoring_save(collector, fixture_stats, files, writable) ==
    IF fixture_stats = <<>> THEN [files |-> files, out |-> Return(None)]
    ELSE [files |-> save_stats_to_csv(collector, fixture_stats, None, files,
                                      writable).files,
          out |-> Return(Some(OutputPath(collector, None)))]

\* run of either class, given the rows its process_fixtures made: None
\* without rows, else the path save_stats_to_csv gives, None when that is ""
run(collector, fixture_stats, files, writable) ==
    IF fixture_stats = <<>> THEN [files |-> files, out |-> Return(None)]
    ELSE LET saved == save_stats_to_csv(collector, fixture_stats, None, files, writable)
         IN  IF saved.out.raised # None THEN [files |-> saved.files, out |-> Return(None)]
             ELSE IF saved.out.returned[1] = ""
             THEN [files |-> saved.files, out |-> Return(None)]
             ELSE [files |-> saved.files, out |-> Return(saved.out.returned)]

-----------------------------------------------------------------------------
(* esd/stats/team_stats.py: what TeamStatsCollector._process_team makes of
   the statistics of a team's recent matches.  Of the statistics of a match
   the model keeps the goals and the shots; an average is the total and the
   count it is divided by. *)

\* total / matches_count
Ratio(total, count) == [total |-> total, count |-> count]

\* the wrapper get_match_statistics_with_retry over a get_match_statistics
\* that raises in its first failures calls and returns stats after them:
\* the stats when an attempt is left for it, {} when the attempts run out,
\* None when there is no attempt at all
get_match_statistics_with_retry(retries, failures, stats) ==
    IF retries = 0 THEN Return(None)
    ELSE IF failures < retries THEN Return(Some(stats))
    ELSE Return(Some(EmptyDict))

\* get_match_statistics as _process_team calls it: the method itself, or the
\* wrapper when process_stats_collection has installed it (wrapper is then
\* its max_retries)
get_match_statistics(wrapper, failures, stats) ==
    IF wrapper # None THEN get_match_statistics_with_retry(wrapper[1], failures, stats)
    ELSE IF failures > 0 THEN Raise(Exc("HTTPError", "403 Forbidden"))
    ELSE Return(Some(stats))

\* _calculate_form_stats: a match without its goals raises KeyError
calculate_form_stats(all_stats) ==
    LET Won(m) == m["goals_scored"] > m["goals_conceded"]
        Drew(m) == m["goals_scored"] = m["goals_conceded"]
        wins == Len(SelectSeq(all_stats, Won))
        draws == Len(SelectSeq(all_stats, Drew))
    IN  IF all_stats = <<>> THEN Return([wins |-> 0, draws |-> 0, losses |-> 0])
        ELSE IF \E i \in DOMAIN all_stats :
                   {"goals_scored", "goals_conceded"} \ DOMAIN all_stats[i] # {}
        THEN Raise(Exc("KeyError", "goals_scored"))
        ELSE Return([wins |-> wins, draws |-> draws,
                     losses |-> Len(all_stats) - wins - draws,
                     points |-> wins * 3 + draws])

\* sum(match.get(stat, 0) for match in all_stats)
RECURSIVE total_of(_, _)
total_of(all_stats, stat) ==
    IF all_stats = <<>> THEN 0
    ELSE Get(Head(all_stats), stat, 0) + total_of(Tail(all_stats), stat)

\* _calculate_average_stats: {} for no match
calculate_average_stats(all_stats) ==
    IF all_stats = <<>> THEN EmptyDict
    ELSE LET matches_count == Len(all_stats)
             scored == total_of(all_stats, "goals_scored")
             conceded == total_of(all_stats, "goals_conceded")
             shots == total_of(all_stats, "total_shots")
         IN  [avg_goals_scored |-> Ratio(scored, matches_count),
              avg_goals_conceded |-> Ratio(conceded, matches_count),
              avg_total_shots |-> Ratio(shots, matches_count),
              avg_goal_diff |-> Ratio(scored - conceded, matches_count),
              avg_shots_conversion |->
                  IF shots > 0 THEN Ratio(scored * 100, shots) ELSE Ratio(0, 1)]

\* the loop over recent_matches ending at the first match that fails
RECURSIVE all_stats_until_failure(_, _, _)
all_stats_until_failure(wrapper, team_matches, i) ==
    IF i > Len(team_matches) THEN <<>>
    ELSE LET match_stats == get_match_statistics(wrapper, team_matches[i].failures,
                                                 team_matches[i].stats)
         IN  IF match_stats.raised # None THEN <<>>
             ELSE <<match_stats.returned[1]>>
                      \o all_stats_until_failure(wrapper, team_matches, i + 1)

\* the loop over recent_matches of _process_team: all_stats after it.  The
\* result of get_match_statistics is appended before the line that prints
\* its date, so a result without a date stays in the list.
RECURSIVE all_stats_from(_, _, _)
all_stats_from(wrapper, team_matches, i) ==
    IF i > Len(team_matches) THEN <<>>
    ELSE LET match_stats == get_match_statistics(wrapper, team_matches[i].failures,
                                                 team_matches[i].stats)
             rest == all_stats_from(wrapper, team_matches, i + 1)
         IN  IF match_stats.raised # None THEN rest
             ELSE <<match_stats.returned[1]>> \o rest

\* the details of the first five matches, from the i-th
RECURSIVE with_match_details(_, _, _)
with_match_details(avg_stats, all_stats, i) ==
    IF i > Len(all_stats) \/ i > 5 THEN avg_stats
    ELSE LET prefix == "recent_match_" \o str(i)
             match_stat == all_stats[i]
         IN  with_match_details(
                 Update(avg_stats,
                        [k \in {prefix \o "_date", prefix \o "_opponent",
                                prefix \o "_goals_scored", prefix \o "_goals_conceded",
                                prefix \o "_tournament"} |->
                            IF k = prefix \o "_date" THEN match_stat["match_date"]
                            ELSE IF k = prefix \o "_opponent" THEN match_stat["opponent"]
                            ELSE IF k = prefix \o "_goals_scored" THEN match_stat["goals_scored"]
                            ELSE IF k = prefix \o "_goals_conceded"
                            THEN match_stat["goals_conceded"]
                            ELSE match_stat["tournament"]]),
                 all_stats, i + 1)

\* _process_team: teams is what client.search does, team_matches what
\* get_team_recent_matches does, each match with what get_match_statistics
\* will do for it.  Every exception ends in None; a value of all_stats that
\* is no dict (None) or lacks a key read from it raises one.
process_team(wrapper, teams, team_matches) ==
    IF teams.raised # None THEN Return(None)
    ELSE IF teams.returned[1] = <<>> THEN Return(None)
    ELSE IF team_matches.raised # None THEN Return(None)
    ELSE IF team_matches.returned[1] = <<>> THEN Return(None)
    ELSE LET all_options == all_stats_from(wrapper, team_matches.returned[1], 1)
             all_stats == [i \in DOMAIN all_options |->
                              IF all_options[i] = None THEN EmptyDict
                              ELSE all_options[i][1]]
             form_stats == calculate_form_stats(all_stats)
         IN  IF \E i \in DOMAIN all_options : all_options[i] = None THEN Return(None)
             ELSE IF form_stats.raised # None THEN Return(None)
             ELSE IF \E i \in DOMAIN all_stats :
                        i <= 5 /\ {"match_date", "opponent", "tournament"}
                                      \ DOMAIN all_stats[i] # {}
             THEN Return(None)
             ELSE Return(Some(with_match_details(
                                  Update(Update(calculate_average_stats(all_stats),
                                                [matches_analyzed |-> Len(all_stats)]),
                                         form_stats.returned[1]),
                                  all_stats, 1)))

\* the row collect_stats_for_teams makes of the statistics of a team
team_stats_row(team_stats, fixture_row, idx, team_name, opponent_name, is_home) ==
    Update(team_stats,
           [fixture_id |-> Get(fixture_row, "id", "fixture_" \o str(idx)),
            fixture_date |-> Get(fixture_row, "date", "Unknown"),
            team_name |-> team_name,
            opponent_name |-> opponent_name,
            is_home |-> is_home])

\* the loop of collect_stats_for_teams from the row at place index; runs
\* gives, for a team name, what the client will do for that team.  A row
\* without a team column raises KeyError, which nothing here catches.
RECURSIVE collect_stats_from(_, _, _, _, _)
collect_stats_from(rows, index, wrapper, runs, all_team_stats) ==
    IF index > Len(rows) THEN Return(all_team_stats)
    ELSE IF "home_team" \notin DOMAIN rows[index]
    THEN Raise(Exc("KeyError", "home_team"))
    ELSE IF "away_team" \notin DOMAIN rows[index]
    THEN Raise(Exc("KeyError", "away_team"))
    ELSE LET fixture_row == rows[index]
             home_team == fixture_row["home_team"]
             away_team == fixture_row["away_team"]
             home_team_stats == process_team(wrapper, runs[home_team].teams,
                                             runs[home_team].team_matches).returned[1]
             away_team_stats == process_team(wrapper, runs[away_team].teams,
                                             runs[away_team].team_matches).returned[1]
             home_rows == IF home_team_stats = None THEN <<>>
                          ELSE <<team_stats_row(home_team_stats[1], fixture_row, index - 1,
                                                home_team, away_team, TRUE)>>
             away_rows == IF away_team_stats = None THEN <<>>
                          ELSE <<team_stats_row(away_team_stats[1], fixture_row, index - 1,
                                                away_team, home_team, FALSE)>>
         IN  collect_stats_from(rows, index + 1, wrapper, runs,
                                all_team_stats \o home_rows \o away_rows)

\* TeamStatsCollector.collect_stats_for_teams
collect_stats_for_teams(fixtures_df, wrapper, runs) ==
    collect_stats_from(fixtures_df, 1, wrapper, runs, <<>>)

-----------------------------------------------------------------------------
(* FixturesSpec: one call of a method that turns the fixtures file into rows
   of statistics *)

MaxFrameRows == 2

\* the fixtures of the file, and the columns a file may have: those of a
\* known format, or no team columns in a format read_fixtures does not know
FixtureRows ==
    {[match_date |-> "2025-01-18", league |-> "Primera",
      home_team |-> "Boca", away_team |-> "River"],
     [match_date |-> "2025-01-19", league |-> "Primera",
      home_team |-> "River", away_team |-> "Racing"]}
FrameColumns ==
    {{"match_date", "league", "home_team", "away_team"}, {"match_date", "league"}}

\* what read_fixtures does: no file, or a frame of at most MaxFrameRows rows
Frames ==
    {Raise(Exc("FileNotFoundError", "Fixtures file not found"))}
        \cup {Return([i \in DOMAIN rows |-> Restrict(rows[i], columns)]) :
                 rows \in UNION {[1..n -> FixtureRows] : n \in 0..MaxFrameRows},
                 columns \in FrameColumns}

\* what get_team_recent_matches does for one team: it raises, finds no
\* match, or gives one
PlayedMatch ==
    [date |-> "2025-01-15", opponent |-> "Racing", result |-> "W",
     goals_scored |-> 2, goals_conceded |-> 1]
Fetched ==
    {Raise(Exc("AttributeError", "strip")), Return(<<>>), Return(<<PlayedMatch>>)}

\* the days the offline generator may run on: those of a month of 31 days
\* and of a month of 28, and the rounded goals of a generated match
RunDays ==
    {day \in [year : {2025}, month : {1, 2}, day : 1..31] :
        day.day <= days_in_month(day.year, day.month)}
GeneratedGoals == [scored : 0..1, conceded : 0..1]

\* the numbers of matches asked of generate_match_results, up to its default
MaxGenerated == 3

\* what a call of the FBref collector meets, and what one of the generator
FBrefArgs ==
    UNION {[frame : {frame},
            fetches : [1..(2 * (IF frame.raised # None THEN 0
                                ELSE Len(frame.returned[1]))) -> Fetched],
            interrupted_at : 0..(IF frame.raised # None THEN 0
                                 ELSE Len(frame.returned[1]))] : frame \in Frames}
GeneratorArgs == [frame : Frames, now : RunDays, goals : GeneratedGoals]

\* the recent matches of a team: at most MaxTeamMatches, each with the number
\* of calls of get_match_statistics that fail for it before one succeeds
\* (MaxRetries of them outlast every wrapper) and the statistics it then gives
MaxTeamMatches == 2
WonMatch ==
    [goals_scored |-> 2, goals_conceded |-> 1, total_shots |-> 10,
     match_date |-> "2025-01-15", opponent |-> "Racing", tournament |-> "Primera"]
DrawnMatch ==
    [goals_scored |-> 1, goals_conceded |-> 1, total_shots |-> 0,
     match_date |-> "2025-01-11", opponent |-> "Lanus", tournament |-> "Copa"]
TeamMatch == [failures : {0, 1, MaxRetries}, stats : {WonMatch, DrawnMatch}]
TeamMatchLists == UNION {[1..n -> TeamMatch] : n \in 0..MaxTeamMatches}

\* the wrapper: not installed, or installed with its max_retries
Wrappers == {None} \cup {Some(retries) : retries \in RetryLimits}

\* what client.search and get_team_recent_matches do for a team
TeamSearches ==
    {Raise(Exc("HTTPError", "403 Forbidden")), Return(<<>>),
     Return(<<[id |-> 2970, name |-> "Boca Juniors"]>>)}
RecentMatches ==
    {Raise(Exc("HTTPError", "403 Forbidden"))}
        \cup {Return(team_matches) : team_matches \in TeamMatchLists}

\* for collect_stats_for_teams, what the client does for each team of the
\* fixtures: the team is not found, its one match always fails, the first of
\* its two matches always fails, its one match is fetched
TeamRuns ==
    {[teams |-> Return(<<>>), team_matches |-> Return(<<>>)]}
        \cup {[teams |-> Return(<<[id |-> 2970, name |-> "Boca Juniors"]>>),
               team_matches |-> Return(team_matches)] :
                 team_matches \in
                     {<<[failures |-> MaxRetries, stats |-> WonMatch]>>,
                      <<[failures |-> MaxRetries, stats |-> WonMatch],
                        [failures |-> 0, stats |-> DrawnMatch]>>,
                      <<[failures |-> 0, stats |-> WonMatch]>>}}
FixtureTeams == {"Boca", "River", "Racing"}

\* the lists of statistics _calculate_form_stats is called on
GoalStats == [goals_scored : 0..2, goals_conceded : 0..2]
GoalStatLists == UNION {[1..n -> GoalStats] : n \in 0..MaxTeamMatches}

FixturesInit ==
    /\ NotFxIdle
    /\ fx_files = EmptyDict
    /\ fx_out = NotCalled
    /\ \/ /\ fx_fn = "FixtureStatsCollector.process_fixtures"
          /\ fx_args \in FBrefArgs
       \/ /\ fx_fn = "FixtureStatsCollector.run"
          /\ fx_args \in FBrefArgs
       \/ /\ fx_fn = "TeamStatisticsGenerator.generate_match_results"
          /\ fx_args \in [team_name : {"Boca", "West United"},
                          num_matches : 0..MaxGenerated,
                          now : RunDays, goals : GeneratedGoals]
       \/ /\ fx_fn = "FixtureStatisticsGenerator.process_fixtures"
          /\ fx_args \in GeneratorArgs
       \/ /\ fx_fn = "FixtureStatisticsGenerator.run"
          /\ fx_args \in GeneratorArgs
       \/ /\ fx_fn = "TeamStatsCollector._process_team"
          /\ fx_args \in [wrapper : Wrappers, teams : TeamSearches,
                          team_matches : RecentMatches]
       \/ /\ fx_fn = "TeamStatsCollector.collect_stats_for_teams"
          /\ fx_args \in [fixtures_df : {frame.returned[1] :
                                            frame \in {f \in Frames : f.raised = None}},
                          wrapper : {None, Some(MaxRetries)},
                          runs : [FixtureTeams -> TeamRuns]]
       \/ /\ fx_fn = "TeamStatsCollector._calculate_form_stats"
          /\ fx_args \in [all_stats : GoalStatLists]

call_FBref_process_fixtures ==
    /\ fx_fn = "FixtureStatsCollector.process_fixtures"
    /\ fx_out = NotCalled
    /\ fx_out' = Return(FBref_process_fixtures(fx_args.frame, fx_args.fetches,
                                               fx_args.interrupted_at))
    /\ UNCHANGED <<fx_fn, fx_args, fx_files>>
    /\ UNCHANGED not_fx_vars

\* run of FixtureStatsCollector; whether the output file can be written is
\* drawn when it is opened
call_FBref_run ==
    \E writable \in BOOLEAN :
        LET did == run("FixtureStatsCollector",
                       FBref_process_fixtures(fx_args.frame, fx_args.fetches,
                                              fx_args.interrupted_at),
                       fx_files, writable)
        IN  /\ fx_fn = "FixtureStatsCollector.run"
            /\ fx_out = NotCalled
            /\ fx_files' = did.files
            /\ fx_out' = did.out
            /\ UNCHANGED <<fx_fn, fx_args>>
            /\ UNCHANGED not_fx_vars

call_generate_match_results ==
    /\ fx_fn = "TeamStatisticsGenerator.generate_match_results"
    /\ fx_out = NotCalled
    /\ fx_out' = generate_match_results(fx_args.team_name, fx_args.num_matches,
                                        fx_args.now, fx_args.goals)
    /\ UNCHANGED <<fx_fn, fx_args, fx_files>>
    /\ UNCHANGED not_fx_vars

call_Generator_process_fixtures ==
    /\ fx_fn = "FixtureStatisticsGenerator.process_fixtures"
    /\ fx_out = NotCalled
    /\ fx_out' = Return(Generator_process_fixtures(fx_args.frame, fx_args.now,
                                                   fx_args.goals))
    /\ UNCHANGED <<fx_fn, fx_args, fx_files>>
    /\ UNCHANGED not_fx_vars

call_Generator_run ==
    \E writable \in BOOLEAN :
        LET did == run("FixtureStatisticsGenerator",
                       Generator_process_fixtures(fx_args.frame, fx_args.now,
                                                  fx_args.goals),
                       fx_files, writable)
        IN  /\ fx_fn = "FixtureStatisticsGenerator.run"
            /\ fx_out = NotCalled
            /\ fx_files' = did.files
            /\ fx_out' = did.out
            /\ UNCHANGED <<fx_fn, fx_args>>
            /\ UNCHANGED not_fx_vars

call_process_team ==
    /\ fx_fn = "TeamStatsCollector._process_team"
    /\ fx_out = NotCalled
    /\ fx_out' = process_team(fx_args.wrapper, fx_args.teams, fx_args.team_matches)
    /\ UNCHANGED <<fx_fn, fx_args, fx_files>>
    /\ UNCHANGED not_fx_vars

call_collect_stats_for_teams ==
    /\ fx_fn = "TeamStatsCollector.collect_stats_for_teams"
    /\ fx_out = NotCalled
    /\ fx_out' = collect_stats_for_teams(fx_args.fixtures_df, fx_args.wrapper,
                                         fx_args.runs)
    /\ UNCHANGED <<fx_fn, fx_args, fx_files>>
    /\ UNCHANGED not_fx_vars

call_calculate_form_stats ==
    /\ fx_fn = "TeamStatsCollector._calculate_form_stats"
    /\ fx_out = NotCalled
    /\ fx_out' = calculate_form_stats(fx_args.all_stats)
    /\ UNCHANGED <<fx_fn, fx_args, fx_files>>
    /\ UNCHANGED not_fx_vars

FixturesNext ==
    \/ call_FBref_process_fixtures
    \/ call_process_team
    \/ call_collect_stats_for_teams
    \/ call_calculate_form_stats
    \/ call_FBref_run
    \/ call_generate_match_results
    \/ call_Generator_process_fixtures
    \/ call_Generator_run

FixturesSpec == FixturesInit /\ [][FixturesNext]_vars

-----------------------------------------------------------------------------
(* Properties of the parsers *)

ParseEventsCalled == parser_fn = "parse_events" /\ parser_out # NotCalled
ParsePlayerCalled == parser_fn = "parse_player" /\ parser_out # NotCalled

\* the entry has a status object with a type, and it is t
HasStatusType(entry, t) ==
    /\ "status" \in DOMAIN entry
    /\ "type" \in DOMAIN entry["status"]
    /\ entry["status"]["type"] = t

\* the entry's status.type is the target; a None target selects the entries without one
EntryMatches(entry, target) ==
    IF target = None
    THEN ~("status" \in DOMAIN entry /\ "type" \in DOMAIN entry["status"])
    ELSE HasStatusType(entry, target[1])

MatchingPositions(events, target) ==
    {i \in 1..Len(events) : EntryMatches(events[i], target)}

\* the k-th smallest member of a set of positions
Nth(S, k) == CHOOSE x \in S : Cardinality({y \in S : y <= x}) = k

\* every payload key of field that obj lacks has its default in the parsed record
AbsentDefaulted(obj, parsed, field, default) ==
    \A k \in DOMAIN field : k \notin DOMAIN obj => parsed[field[k]] = default[k]

\* C1: parse_events returns exactly one Event per input entry whose status.type
\* equals the target status, and no others, in the input's relative order; an
\* entry with no status object is never returned for a string target.
C1_FilterExactInOrder ==
    ParseEventsCalled =>
        LET events == parser_args[1]
            target == parser_args[2]
            pos == MatchingPositions(events, target)
        IN /\ parser_out.raised = None
           /\ parser_out.returned # None
           /\ LET out == parser_out.returned[1]
              IN /\ Len(out) = Cardinality(pos)
                 /\ \A k \in 1..Len(out) :
                        /\ out[k] = Event(events[Nth(pos, k)])
                        /\ out[k].id = GetOpt(events[Nth(pos, k)], "id")
                        /\ target # None => out[k].status.type = target[1]
                 /\ target # None =>
                        \A i \in 1..Len(events) :
                            "status" \notin DOMAIN events[i] =>
                                \A k \in 1..Len(out) : out[k].id # Some(i)

\* five entries, the second and the fifth notstarted, one without a status
\* object: exactly those two are returned, in input order
C1_Witness ==
    /\ ParseEventsCalled
    /\ Len(parser_args[1]) = 5
    /\ parser_args[2] = Some("notstarted")
    /\ MatchingPositions(parser_args[1], parser_args[2]) = {2, 5}
    /\ "status" \notin DOMAIN parser_args[1][1]
    /\ Len(parser_out.returned[1]) = 2
    /\ parser_out.returned[1][1].id = Some(2)
    /\ parser_out.returned[1][2].id = Some(5)

\* the payload's object under key, {} when the key is absent
Sub(obj, key) == Get(obj, key, EmptyDict)

\* the parsed team summary has the default of every part its payload lacks
TeamDefaulted(data, parsed) ==
    /\ AbsentDefaulted(data, parsed, TeamSummary_field, TeamSummary_default)
    /\ AbsentDefaulted(Sub(data, "teamColors"), parsed.team_colors,
                       TeamColors_field, TeamColors_default)
    /\ AbsentDefaulted(Sub(data, "country"), parsed.country, Country_field, Country_default)

\* C8: for an entry that passes the status filter, the absence of homeScore,
\* awayScore, homeTeam, awayTeam, time or roundInfo, or of any field inside
\* them (teamColors and country included), never raises, and the part of the
\* Event it fills is default-valued; a missing score object yields a TeamScore
\* whose current, display, period1, period2 and normaltime are all 0.
C8_AbsentSubObjectsDefaulted ==
    ParseEventsCalled =>
        LET events == parser_args[1]
            pos == MatchingPositions(events, parser_args[2])
        IN /\ parser_out.raised = None
           /\ parser_out.returned # None
           /\ Len(parser_out.returned[1]) = Cardinality(pos)
           /\ \A k \in 1..Cardinality(pos) :
                 LET entry == events[Nth(pos, k)]
                     ev == parser_out.returned[1][k]
                 IN /\ AbsentDefaulted(Sub(entry, "homeScore"), ev.home_score,
                                       TeamScore_field, TeamScore_default)
                    /\ AbsentDefaulted(Sub(entry, "awayScore"), ev.away_score,
                                       TeamScore_field, TeamScore_default)
                    /\ "homeScore" \notin DOMAIN entry => ev.home_score = TeamScore_default
                    /\ "awayScore" \notin DOMAIN entry => ev.away_score = TeamScore_default
                    /\ TeamDefaulted(Sub(entry, "homeTeam"), ev.home_team)
                    /\ TeamDefaulted(Sub(entry, "awayTeam"), ev.away_team)
                    /\ AbsentDefaulted(Sub(entry, "time"), ev.time,
                                       TimeEvent_field, TimeEvent_default)
                    /\ AbsentDefaulted(Sub(entry, "roundInfo"), ev.round_info,
                                       RoundInfo_field, RoundInfo_default)

\* an entry that passed the filter with only status, awayTeam and awayScore:
\* the Event has the zero home score and the default home team
C8_Witness ==
    /\ ParseEventsCalled
    /\ Len(parser_args[1]) = 1
    /\ Len(parser_out.returned[1]) = 1
    /\ DOMAIN parser_args[1][1] = {"status", "awayTeam", "awayScore"}
    /\ parser_out.returned[1][1].home_score = TeamScore_default
    /\ parser_out.returned[1][1].away_score.current = 3
    /\ parser_out.returned[1][1].home_team.name = ""

\* C9: parse_player never fails on a missing field: for a player mapping
\* lacking any subset of its fields it returns a Player with the absent fields
\* defaulted.
C9_PlayerAbsentDefaulted ==
    ParsePlayerCalled =>
        /\ parser_out.raised = None
        /\ parser_out.returned # None
        /\ \A k \in DOMAIN Player_field :
              k \notin DOMAIN parser_args[1] =>
                  Some(parser_out.returned[1][Player_field[k]]) = Player_default[k]

\* C10: an entry lacking id, startTimestamp, slug, coverage, feedLocked or
\* finalResultOnly produces an Event holding the declared default of the
\* field (0, 0, "n/a", 0, False, False), not None.
C10_AbsentScalarsDefaulted ==
    ParseEventsCalled =>
        LET events == parser_args[1]
            pos == MatchingPositions(events, parser_args[2])
        IN /\ parser_out.returned # None
           /\ Len(parser_out.returned[1]) = Cardinality(pos)
           /\ \A k \in 1..Cardinality(pos) :
                 \A key \in DOMAIN Event_field :
                    key \notin DOMAIN events[Nth(pos, k)] =>
                        parser_out.returned[1][k][Event_field[key]] = Some(Event_default[key])

ParseMatchCalled == parser_fn = "parse_match" /\ parser_out # NotCalled

\* the text has exactly the shape DD-MM-YYYY HH:MM
ExactPattern(text) ==
    /\ Len(text) = 16
    /\ \A i \in {1, 2, 4, 5, 7, 8, 9, 10, 12, 13, 15, 16} : text[i] \in Digits
    /\ text[3] = "-" /\ text[6] = "-" /\ text[11] = " " /\ text[14] = ":"

\* the number a field of one, two or four characters writes; a blank counts
\* as a leading zero
Numeral(text) ==
    LET v(i) == IF text[i] = " " THEN 0 ELSE DigitValue(text[i])
    IN  IF Len(text) = 1 THEN v(1)
        ELSE IF Len(text) = 2 THEN 10 * v(1) + v(2)
        ELSE 1000 * v(1) + 100 * v(2) + 10 * v(3) + v(4)

\* the seconds from 1970-01-01 00:00 to the minute given, counted year by year
\* and month by month
RECURSIVE DaysOfYears(_, _)
DaysOfYears(from, to) ==
    IF from >= to THEN 0
    ELSE (IF from % 4 = 0 /\ (from % 100 # 0 \/ from % 400 = 0) THEN 366 ELSE 365)
            + DaysOfYears(from + 1, to)
MonthLengths(year) ==
    <<31, IF DaysOfYears(year, year + 1) = 366 THEN 29 ELSE 28,
      31, 30, 31, 30, 31, 31, 30, 31, 30, 31>>
RECURSIVE DaysOfMonths(_, _)
DaysOfMonths(year, month) ==
    IF month <= 1 THEN 0
    ELSE MonthLengths(year)[month - 1] + DaysOfMonths(year, month - 1)
EpochSeconds(year, month, day, hour, minute) ==
    ((DaysOfYears(1970, year) + DaysOfMonths(year, month) + day - 1) * 24 + hour) * 3600
        + minute * 60

\* the text reads day-month-year, blanks, hour:minute, with one or two
\* characters for the day (digits, or a blank and a digit), one or two digits
\* for the month, the hour and the minute and four for the year, and names a
\* minute of the calendar from 1970 on; Reading is then its epoch timestamp
Readings(text) ==
    {r \in [dash1 : {2, 3}, dash2 : 4..6, hour_at : 10..Len(text), colon : 11..Len(text)] :
        /\ r.dash2 - r.dash1 \in {2, 3}
        /\ r.hour_at >= r.dash2 + 6
        /\ r.colon - r.hour_at \in {1, 2}
        /\ Len(text) - r.colon \in {1, 2}
        /\ text[r.dash1] = "-" /\ text[r.dash2] = "-" /\ text[r.colon] = ":"
        /\ \A i \in (r.dash2 + 5)..(r.hour_at - 1) : text[i] \in {" ", "\t", "\n"}
        /\ \A i \in (1..Len(text)) \ ({r.dash1, r.dash2, r.colon}
                                       \cup ((r.dash2 + 5)..(r.hour_at - 1))) :
              text[i] \in Digits \/ (i = 1 /\ r.dash1 = 3 /\ text[i] = " ")
        /\ LET day == Numeral(SubSeq(text, 1, r.dash1 - 1))
               month == Numeral(SubSeq(text, r.dash1 + 1, r.dash2 - 1))
               year == Numeral(SubSeq(text, r.dash2 + 1, r.dash2 + 4))
               hour == Numeral(SubSeq(text, r.hour_at, r.colon - 1))
               minute == Numeral(SubSeq(text, r.colon + 1, Len(text)))
           IN  /\ year >= 1970
               /\ month \in 1..12
               /\ day \in 1..MonthLengths(year)[month]
               /\ hour \in 0..23
               /\ minute \in 0..59}
Reading(text) ==
    LET r == CHOOSE r \in Readings(text) : TRUE
    IN  EpochSeconds(Numeral(SubSeq(text, r.dash2 + 1, r.dash2 + 4)),
                     Numeral(SubSeq(text, r.dash1 + 1, r.dash2 - 1)),
                     Numeral(SubSeq(text, 1, r.dash1 - 1)),
                     Numeral(SubSeq(text, r.hour_at, r.colon - 1)),
                     Numeral(SubSeq(text, r.colon + 1, Len(text))))

ParseMatchStatsCalled == parser_fn = "parse_match_stats" /\ parser_out # NotCalled

\* every entry has a name, and those named by a label of the table have two
\* values and two percentages
NamedStatEntries(data) ==
    \A i \in 1..Len(data) :
        /\ "name" \in DOMAIN data[i]
        /\ data[i]["name"] \in DOMAIN stats_map =>
              /\ {"values", "percentages"} \subseteq DOMAIN data[i]
              /\ Len(data[i]["values"]) >= 2
              /\ Len(data[i]["percentages"]) >= 2

\* the positions of the entries whose label the table maps to field
EntriesFor(data, field) ==
    {i \in 1..Len(data) :
        data[i]["name"] \in DOMAIN stats_map /\ stats_map[data[i]["name"]] = field}

\* C12: for a list of named stat entries, parse_match_stats populates exactly
\* the MatchStats fields whose label appears in the list and is in the lookup
\* table (with the values of the last such entry); entries whose label is not
\* in the table are ignored, and the other fields stay None.  One recognized
\* and one unrecognized label give exactly one populated field.
C12_RecognizedLabelsOnly ==
    (ParseMatchStatsCalled /\ NamedStatEntries(parser_args[1])) =>
        LET data == parser_args[1]
        IN  /\ parser_out.returned # None
            /\ DOMAIN parser_out.returned[1] = MatchStats_fields
            /\ \A field \in MatchStats_fields :
                  LET at == EntriesFor(data, field)
                      stats == parser_out.returned[1][field]
                  IN  IF at = {} THEN stats = None
                      ELSE LET last == CHOOSE i \in at : \A j \in at : j <= i
                           IN  /\ stats # None
                               /\ stats[1].home_value = data[last]["values"][1]
                               /\ stats[1].away_value = data[last]["values"][2]
                               /\ stats[1].home_percentage = data[last]["percentages"][1]
                               /\ stats[1].away_percentage = data[last]["percentages"][2]
            /\ ( /\ Len(data) = 2
                 /\ Cardinality({i \in 1..2 : data[i]["name"] \in DOMAIN stats_map}) = 1 ) =>
                    Cardinality({field \in MatchStats_fields :
                                    parser_out.returned[1][field] # None}) = 1

\* parse_match_stats was called on an unrecognized label followed by a
\* recognized one, and returned a record with that one field populated
C12_Witness ==
    /\ ParseMatchStatsCalled
    /\ NamedStatEntries(parser_args[1])
    /\ Len(parser_args[1]) = 2
    /\ parser_args[1][1]["name"] \notin DOMAIN stats_map
    /\ parser_args[1][2]["name"] \in DOMAIN stats_map
    /\ parser_out.returned # None
    /\ Cardinality({field \in MatchStats_fields : parser_out.returned[1][field] # None}) = 1

-----------------------------------------------------------------------------
(* Properties of the services and clients *)

\* the operation has ended: its caller holds a value or an exception
Done == pc = "idle" /\ client_op.name # "none"

IsOp(client, name) == Done /\ client_op.client = client /\ client_op.name = name

\* the URLs requested by the service calls, in order
RECURSIVE AllRequests(_)
AllRequests(calls) ==
    IF Len(calls) = 0 THEN <<>> ELSE Head(calls).requests \o AllRequests(Tail(calls))

\* C2: in get_team, when the team-detail call succeeds and the roster call
\* fails, the operation raises that failure and returns no TeamEx.
C2_RosterFailureRaises ==
    (/\ IsOp("sofascore", "get_team")
     /\ Len(service_calls) = 2
     /\ service_calls[1].raised = None
     /\ service_calls[2].raised # None)
    => /\ outcome.raised = service_calls[2].raised
       /\ outcome.returned = None
       /\ ~service_calls[2].response.ok =>
              outcome.raised = Some(service_calls[2].response.exc)

\* the detail was parsed, the transport failed on the roster request, and the
\* caller got that failure and no team
C2_Witness ==
    /\ IsOp("sofascore", "get_team")
    /\ Len(service_calls) = 2
    /\ service_calls[1].returned # None
    /\ service_calls[2].response = Fail(Exc("HTTPError", "404"))
    /\ outcome = Raise(Exc("HTTPError", "404"))

IndexedKey(client, service) ==
    IF client = "promiedos" THEN Some("leagues")
    ELSE IF service \in {"get_events", "get_live_events"} THEN Some("events")
    ELSE IF service = "get_team" THEN Some("team")
    ELSE IF service = "get_team_players" THEN Some("players")
    ELSE None

\* C4: for every service operation (Promiedos get_events after validation),
\* when the transport or the decoding raises E, the caller observes exactly E
\* and the transport was invoked exactly once for that call.
C4_ExceptionsUnchangedNoRetry ==
    /\ \A i \in 1..Len(service_calls) :
          LET call == service_calls[i]
              key == IndexedKey(client_op.client, call.name)
          IN  call.raised # Some(InvalidDate) =>
                /\ ~call.response.ok =>
                      /\ call.raised = Some(call.response.exc)
                      /\ Len(call.requests) = 1
                /\ (/\ call.response.ok
                     /\ key # None
                     /\ key[1] \notin DOMAIN call.response.payload[1]) =>
                      /\ call.raised = Some(Exc("KeyError", key[1]))
                      /\ Len(call.requests) = 1
    /\ (Done /\ service_calls[Len(service_calls)].raised # None) =>
          outcome.raised = service_calls[Len(service_calls)].raised

\* the transport failed on the team-players request: the caller holds that
\* exception after one request
C4_Witness ==
    /\ IsOp("sofascore", "get_team_players")
    /\ service_calls[1].response = Fail(Exc("ConnectionError", ""))
    /\ outcome = Raise(Exc("ConnectionError", ""))
    /\ service_calls[1].requests = <<Url("team_players", client_op.args[1])>>

\* C5: when the transport succeeds and the payload has an "events" list,
\* get_events and get_live_events return the parsed Event records and do not
\* raise.
C5_EventsReturned ==
    (/\ IsOp("sofascore", "get_events")
     /\ service_calls[1].response.ok
     /\ "events" \in DOMAIN service_calls[1].response.payload[1])
    => /\ outcome.raised = None
       /\ outcome.returned # None

\* an Event of the Promiedos client has a league, a date and matches
IsPromiedosEvent(value) == {"league", "date", "matches"} \subseteq DOMAIN value

\* C6: PromiedosClient.get_events returns a list of parsed Event records, not
\* the decoded value of "leagues".
C6_PromiedosEventsParsed ==
    (IsOp("promiedos", "get_events") /\ outcome.returned # None) =>
        \A i \in 1..Len(outcome.returned[1]) : IsPromiedosEvent(outcome.returned[1][i])

\* C7: Promiedos get_events with a date that is none of today, yesterday,
\* tomorrow and fails validation raises InvalidDate before any request; for the
\* three named dates exactly one request is issued; InvalidDate is raised in
\* no other situation, and transport and shape failures keep their own type.
C7_InvalidDateOnlyOnValidation ==
    /\ IsOp("promiedos", "get_events") =>
          LET date == client_op.args[1]
              call == service_calls[1]
              named == date = today \/ date = yesterday \/ date = tomorrow
          IN  /\ (~named /\ ~MatchesDatePattern(date)) =>
                    /\ outcome.raised = Some(InvalidDate)
                    /\ call.requests = <<>>
              /\ named =>
                    /\ call.requests = <<Url("events", date)>>
                    /\ outcome.raised # Some(InvalidDate)
              /\ outcome.raised = Some(InvalidDate) => (~named /\ ~MatchesDatePattern(date))
              /\ (outcome.raised # Some(InvalidDate) /\ ~call.response.ok) =>
                    outcome.raised = Some(call.response.exc)
              /\ (/\ outcome.raised # Some(InvalidDate)
                   /\ call.response.ok
                   /\ "leagues" \notin DOMAIN call.response.payload[1]) =>
                    outcome.raised = Some(Exc("KeyError", "leagues"))
    /\ (Done /\ outcome.raised = Some(InvalidDate)) => client_op.client = "promiedos"

\* the date 15-01-2025 fails the validation: InvalidDate, and no request
C7_Witness ==
    /\ IsOp("promiedos", "get_events")
    /\ client_op.args[1] = <<"1", "5", "-", "0", "1", "-", "2", "0", "2", "5">>
    /\ outcome = Raise(InvalidDate)
    /\ service_calls[1].requests = <<>>

\* the top-level key a service call expects in the payload
ExpectedKey(client, service) ==
    IF client = "promiedos" THEN "leagues"
    ELSE IF service \in {"get_events", "get_live_events"} THEN "events"
    ELSE IF service = "get_match_stats" THEN "statistics"
    ELSE IF service = "get_team" THEN "team"
    ELSE "players"

\* the service calls whose request was answered with a payload lacking their key
LacksExpectedKey(call) ==
    /\ client_op.client \in {"sofascore", "promiedos"}
    /\ call.requests # <<>>
    /\ call.response.ok
    /\ ExpectedKey(client_op.client, call.name) \notin DOMAIN call.response.payload[1]

\* C13 as stated: every service operation whose payload lacks the expected
\* top-level key raises a lookup failure that reaches the caller; none
\* substitutes an empty value for the key and returns a record.
C13_MissingKeyRaises ==
    \A i \in 1..Len(service_calls) :
        LacksExpectedKey(service_calls[i]) =>
            /\ service_calls[i].raised # None
            /\ service_calls[i].raised[1].type = "KeyError"
            /\ service_calls[i].returned = None
            /\ Done => outcome = Raise(service_calls[i].raised[1])

\* C13, amended: a payload without the expected top-level key makes get_events,
\* get_live_events, get_team, get_team_players and the Promiedos get_events
\* raise KeyError of that key, which ends the client operation and reaches
\* the caller as it is, with nothing returned; get_match_stats reads
\* "statistics" with a default instead, raises nothing and returns what the
\* parser makes of the empty dict.
C13_MissingKeyRaisesButStatistics ==
    \A i \in 1..Len(service_calls) :
        LET call == service_calls[i]
            key == ExpectedKey(client_op.client, call.name)
        IN  LacksExpectedKey(call) =>
                IF call.name = "get_match_stats"
                THEN /\ call.raised = None
                     /\ call.returned = Some([periods |-> EmptyDict])
                     /\ Done => outcome = Return([periods |-> EmptyDict])
                ELSE /\ call.raised = Some(Exc("KeyError", key))
                     /\ call.returned = None
                     /\ i = Len(service_calls)
                     /\ Done
                     /\ outcome = Raise(Exc("KeyError", key))

\* get_match_stats was answered with a body without "statistics" and returned
\* a record
C13_Witness ==
    /\ IsOp("sofascore", "get_match_stats")
    /\ service_calls[1].response = Ok(ErrorBody)
    /\ service_calls[1].requests # <<>>
    /\ outcome.raised = None
    /\ outcome.returned # None

-----------------------------------------------------------------------------
(* Properties of the service instances *)

-----------------------------------------------------------------------------
(* Properties of the retry wrapper *)

RetryCalls == {i \in DOMAIN retry_log : retry_log[i].event = "call"}
RetryFailures == {i \in RetryCalls : retry_log[i].raised # None}
RetrySleeps == {i \in DOMAIN retry_log : retry_log[i].event = "sleep"}
RetryFinished == retry_result # NotCalled

\* the wrapper returned a dict without keys
ReturnedEmptyStats ==
    /\ retry_result.raised = None
    /\ retry_result.returned # None
    /\ retry_result.returned[1] # None
    /\ DOMAIN retry_result.returned[1][1] = {}

\* at most max_retries calls; a call that returns is the last, and the wrapper
\* returns what it returned; the wrapper never raises; a sleep comes only right
\* after a failed call and is followed by the next call
RetryCallsAndSleeps ==
    /\ Cardinality(RetryCalls) <= max_retries
    /\ \A i \in RetryCalls \ RetryFailures :
          /\ i = Len(retry_log)
          /\ retry_result = Return(Some(retry_log[i].returned[1]))
    /\ RetryFinished => retry_result.raised = None
    /\ \A i \in RetrySleeps :
          /\ i - 1 \in RetryFailures
          /\ i < Len(retry_log) => i + 1 \in RetryCalls
          /\ RetryFinished => i < Len(retry_log)
    /\ \A i \in RetryFailures : i < Len(retry_log) => i + 1 \in RetrySleeps

-----------------------------------------------------------------------------
(* Properties of the collector's loops *)

\* the positions of the log that hold a network call
CollectRequests == {i \in DOMAIN collect_log : collect_log[i].event = "request"}

\* a and b are calls of two consecutive iterations of the loop over the
\* recent matches of one team
ConsecutiveMatches(a, b) ==
    /\ a.fixture = b.fixture
    /\ a.side = b.side
    /\ a.match >= 1
    /\ b.match = a.match + 1

\* a and b are calls of two consecutive iterations of the loop over the rows
ConsecutiveFixtures(a, b) == b.fixture = a.fixture + 1

SleepBetween(i, j) == \E k \in (i + 1)..(j - 1) : collect_log[k].event = "sleep"

\* C17: in the per-match loop of _process_team and in the per-fixture loop of
\* collect_stats_for_teams a sleep lies between the network calls of every
\* two consecutive iterations, whether the earlier iteration succeeded or
\* failed.
C17_DelayBetweenIterations ==
    \A i, j \in CollectRequests :
        (/\ i < j
         /\ \/ ConsecutiveMatches(collect_log[i], collect_log[j])
            \/ ConsecutiveFixtures(collect_log[i], collect_log[j])) =>
            SleepBetween(i, j)

-----------------------------------------------------------------------------
(* Properties of save_stats_to_csv *)

SaveCalled == csv_returned # NotCalled

\* the keys that occur in some row
KeysOfRows(stats) == {key \in StatKeySet : \E i \in DOMAIN stats : key \in DOMAIN stats[i]}

\* C18: the header save_stats_to_csv writes is exactly the union of the keys
\* of all rows passed to it, each key once, so every key of every row is a
\* column; when the list of rows is empty no file is written.
C18_HeaderIsUnionOfKeys ==
    SaveCalled =>
        LET stats == csv_args[1]
        IN  IF stats = <<>> THEN DOMAIN csv_files = {}
            ELSE \A path \in DOMAIN csv_files :
                    LET header == csv_files[path].header
                    IN  /\ {header[n] : n \in DOMAIN header} = KeysOfRows(stats)
                        /\ Len(header) = Cardinality(KeysOfRows(stats))
                        /\ \A i \in DOMAIN stats : \A key \in DOMAIN stats[i] :
                              \E n \in DOMAIN header : header[n] = key

\* two rows with different keys were saved: the file has a column for the key
\* only the first row has and for the key only the second has
C18_Witness ==
    /\ SaveCalled
    /\ Len(csv_args[1]) = 2
    /\ DOMAIN csv_args[1][1] = {"team_name", "wins"}
    /\ DOMAIN csv_args[1][2] = {"team_name", "avg_goals_scored"}
    /\ DOMAIN csv_files # {}
    /\ \A path \in DOMAIN csv_files : Len(csv_files[path].header) = 3

-----------------------------------------------------------------------------
(* Properties of FBrefStatsFetcher.get_team_recent_matches *)

RecentMatchesCalled ==
    parser_fn = "get_team_recent_matches" /\ parser_out # NotCalled

\* the rows of a played match: no spacer and no header, a score cell that is
\* not blank, and a date
IsPlayedRow(row) ==
    /\ row.class \cap {"spacer", "thead"} = {}
    /\ row.score # None
    /\ \E n \in DOMAIN row.score[1] : row.score[1][n] \notin Whitespace
    /\ row.cells > 9
    /\ row.date # ""

\* C19: get_team_recent_matches returns at most max_matches matches, for any
\* max_matches from zero up; they are the first played rows of the table, in
\* table order, and no spacer row, header row or row without a score is among
\* them.
C19_AtMostMaxMatches ==
    RecentMatchesCalled =>
        LET limit == parser_args[1]
            match_rows == parser_args[4]
            matches == parser_out.returned[1]
            played == SelectSeq(match_rows, IsPlayedRow)
        IN  /\ Len(matches) <= limit
            /\ \A n \in DOMAIN matches :
                  /\ n <= Len(played)
                  /\ matches[n].row = played[n].id
                  /\ matches[n].date = played[n].date

-----------------------------------------------------------------------------
(* Properties of FBrefStatsFetcher.search_team *)

SearchKey(n) == clean_team_name(search_log[n].team_name)
CacheBefore(n) == IF n = 1 THEN EmptyDict ELSE search_log[n - 1].cache

\* C20: once a search_team call returned a URL, every later call whose name
\* cleans to the same key returns that URL and makes no request; a call that
\* returns None leaves the cache as it was; and every entry of the cache
\* stays, with its URL, through every later call.
C20_CachedUrlReturned ==
    /\ \A i \in DOMAIN search_log : \A j \in DOMAIN search_log :
          (i < j /\ SearchKey(i) = SearchKey(j) /\ search_log[i].returned # None)
              => /\ search_log[j].returned = search_log[i].returned
                 /\ search_log[j].requests = <<>>
    /\ \A j \in DOMAIN search_log :
          /\ search_log[j].returned = None
                => DOMAIN search_log[j].cache = DOMAIN CacheBefore(j)
          /\ \A key \in DOMAIN CacheBefore(j) :
                /\ key \in DOMAIN search_log[j].cache
                /\ search_log[j].cache[key] = CacheBefore(j)[key]
    /\ search_log # <<>> => team_url_cache = search_log[Len(search_log)].cache

\* Boca was found by a search request, a search for River then found nothing,
\* and a third call, for the name written another way, returned Boca's URL
\* without a request
C20_Witness ==
    /\ Len(search_log) = 3
    /\ search_log[1].team_name = Boca
    /\ search_log[1].requests # <<>>
    /\ search_log[1].returned # None
    /\ search_log[2].team_name = River
    /\ search_log[2].returned = None
    /\ search_log[3].team_name # Boca
    /\ SearchKey(3) = SearchKey(1)
    /\ search_log[3].requests = <<>>
    /\ search_log[3].returned = search_log[1].returned

-----------------------------------------------------------------------------
(* Properties of FixtureStatsCollector.process_fixtures *)

ProcessFixturesCalled ==
    fx_fn = "FixtureStatsCollector.process_fixtures" /\ fx_out # NotCalled

\* the rows of the frame read, none when read_fixtures raised
FrameRows == IF fx_args.frame.raised # None THEN <<>> ELSE fx_args.frame.returned[1]

\* the number of fixtures whose iteration of the loop ran to its end: the
\* loop stops at the first row it fails on
FixturesProcessed ==
    LET Fails(i) == \/ "home_team" \notin DOMAIN FrameRows[i]
                    \/ "away_team" \notin DOMAIN FrameRows[i]
                    \/ fx_args.interrupted_at = i
        failing == {i \in DOMAIN FrameRows : Fails(i)}
    IN  IF failing = {} THEN Len(FrameRows)
        ELSE (CHOOSE i \in failing : \A j \in failing : i <= j) - 1

\* C21: process_fixtures never raises; it returns two rows for each fixture
\* processed, in fixture order, the home team's row first and the away
\* team's row next, whatever the collection of a team's statistics did
\* (failed, found no match, found one); a failure at a later fixture leaves
\* the rows of the fixtures before it in what is returned.
C21_TwoRowsPerFixture ==
    ProcessFixturesCalled =>
        /\ fx_out.raised = None
        /\ LET fixture_stats == fx_out.returned[1]
           IN  /\ Len(fixture_stats) = 2 * FixturesProcessed
               /\ \A i \in 1..FixturesProcessed :
                     LET home_row == fixture_stats[2 * i - 1]
                         away_row == fixture_stats[2 * i]
                     IN  /\ home_row["is_home"] = TRUE
                         /\ away_row["is_home"] = FALSE
                         /\ home_row["fixture_id"] = NumberTexts[i]
                         /\ away_row["fixture_id"] = NumberTexts[i]
                         /\ home_row["team_name"] = FrameRows[i]["home_team"]
                         /\ away_row["team_name"] = FrameRows[i]["away_team"]
                         /\ home_row["opponent_name"] = FrameRows[i]["away_team"]
                         /\ away_row["opponent_name"] = FrameRows[i]["home_team"]

\* two fixtures were read, the statistics of the first home team could not be
\* collected and the first away team had no match, and the second fixture
\* failed: the two rows of the first fixture are returned
C21_Witness ==
    /\ ProcessFixturesCalled
    /\ Len(FrameRows) = 2
    /\ fx_args.fetches[1].raised # None
    /\ fx_args.fetches[2] = Return(<<>>)
    /\ fx_args.interrupted_at = 2
    /\ Len(fx_out.returned[1]) = 2
    /\ "home_matches_analyzed" \notin DOMAIN fx_out.returned[1][1]
    /\ fx_out.returned[1][2]["away_matches_analyzed"] = 0

-----------------------------------------------------------------------------
(* Properties of run of FixtureStatsCollector and FixtureStatisticsGenerator *)

RunCalled ==
    /\ fx_fn \in {"FixtureStatsCollector.run", "FixtureStatisticsGenerator.run"}
    /\ fx_out # NotCalled

\* the rows process_fixtures made in the call of run
RowsProduced ==
    IF fx_fn = "FixtureStatsCollector.run"
    THEN FBref_process_fixtures(fx_args.frame, fx_args.fetches, fx_args.interrupted_at)
    ELSE Generator_process_fixtures(fx_args.frame, fx_args.now, fx_args.goals)

\* C22: run of either class never raises.  When it returns a path, rows were
\* produced and the file at that path holds them; it returns None when no rows
\* were produced, and then writes no file, and when the file was not written.
C22_PathOnlyWhenSaved ==
    RunCalled =>
        /\ fx_out.raised = None
        /\ fx_out.returned[1] # None =>
              /\ RowsProduced # <<>>
              /\ fx_out.returned[1][1] \in DOMAIN fx_files
              /\ Len(fx_files[fx_out.returned[1][1]].rows) = Len(RowsProduced)
        /\ RowsProduced = <<>> =>
              /\ fx_out.returned[1] = None
              /\ DOMAIN fx_files = {}
        /\ DOMAIN fx_files = {} => fx_out.returned[1] = None

\* run of the FBref collector made the rows of one fixture, the file could not
\* be written, and run returned None
C22_Witness ==
    /\ RunCalled
    /\ fx_fn = "FixtureStatsCollector.run"
    /\ Len(RowsProduced) = 2
    /\ DOMAIN fx_files = {}
    /\ fx_out = Return(None)

-----------------------------------------------------------------------------
(* Properties of the offline generator *)

GenerateCalled ==
    fx_fn = "TeamStatisticsGenerator.generate_match_results" /\ fx_out # NotCalled

GeneratorProcessCalled ==
    fx_fn = "FixtureStatisticsGenerator.process_fixtures" /\ fx_out # NotCalled

\* C27: on every day of the month, generate_match_results(team, n) returns n
\* matches without raising, the i-th of them (from zero) dated i + 1 days
\* before the day it runs on; so process_fixtures of the generator makes the
\* two rows of every fixture of a frame that has the team columns, whatever
\* the day.
C27_MatchesOnEveryDay ==
    /\ GenerateCalled =>
          /\ fx_out.raised = None
          /\ Len(fx_out.returned[1]) = fx_args.num_matches
          /\ \A n \in DOMAIN fx_out.returned[1] :
                toordinal(fx_out.returned[1][n].date) = toordinal(fx_args.now) - n
    /\ (/\ GeneratorProcessCalled
        /\ fx_args.frame.raised = None
        /\ \A i \in DOMAIN fx_args.frame.returned[1] :
              {"home_team", "away_team"} \subseteq DOMAIN fx_args.frame.returned[1][i])
          => Len(fx_out.returned[1]) = 2 * Len(fx_args.frame.returned[1])

-----------------------------------------------------------------------------
(* Properties of TeamStatsCollector._process_team and what it feeds *)

\* _process_team was called for a team that was found and has recent matches
TeamProcessed ==
    /\ fx_fn = "TeamStatsCollector._process_team"
    /\ fx_out # NotCalled
    /\ fx_args.teams.raised = None
    /\ fx_args.teams.returned[1] # <<>>
    /\ fx_args.team_matches.raised = None
    /\ fx_args.team_matches.returned[1] # <<>>

\* the matches of the team whose statistics the method in use gives
Fetchable(team_match) ==
    IF fx_args.wrapper = None THEN team_match.failures = 0
    ELSE team_match.failures < fx_args.wrapper[1]
FetchedMatches == SelectSeq(fx_args.team_matches.returned[1], Fetchable)

\* C23: when get_match_statistics raises for a match, _process_team skips
\* that match only: it does not raise, it returns a row, matches_analyzed is
\* the number of matches whose statistics were fetched, and the details of
\* those matches are in the row in the order of the matches.
C23_FailedMatchSkipped ==
    (TeamProcessed /\ fx_args.wrapper = None) =>
        /\ fx_out.raised = None
        /\ fx_out.returned[1] # None
        /\ LET row == fx_out.returned[1][1]
           IN  /\ row["matches_analyzed"] = Len(FetchedMatches)
               /\ \A k \in DOMAIN FetchedMatches :
                     /\ NumberTexts[k + 1] = str(k)
                     /\ ("recent_match_" \o str(k) \o "_date") \in DOMAIN row
                     /\ row["recent_match_" \o str(k) \o "_date"]
                            = FetchedMatches[k].stats.match_date
               /\ ("recent_match_" \o str(Len(FetchedMatches) + 1) \o "_date")
                      \notin DOMAIN row

\* of two matches the first raised and the second was fetched: the row counts
\* one match and its first detail is the second match
C23_Witness ==
    /\ TeamProcessed
    /\ fx_args.wrapper = None
    /\ Len(fx_args.team_matches.returned[1]) = 2
    /\ fx_args.team_matches.returned[1][1].failures > 0
    /\ fx_args.team_matches.returned[1][1].stats = WonMatch
    /\ fx_args.team_matches.returned[1][2] = [failures |-> 0, stats |-> DrawnMatch]
    /\ fx_out.returned[1] # None
    /\ fx_out.returned[1][1]["matches_analyzed"] = 1
    /\ fx_out.returned[1][1]["recent_match_1_date"] = DrawnMatch.match_date

\* C24: with the retry wrapper installed, a match for which the retries run
\* out is left out: _process_team returns a row, and matches_analyzed counts
\* the matches that yielded statistics.
C24_ExhaustedMatchLeftOut ==
    (/\ TeamProcessed
     /\ fx_args.wrapper # None
     /\ fx_args.wrapper[1] >= 1
     /\ Len(FetchedMatches) < Len(fx_args.team_matches.returned[1])) =>
        /\ fx_out.raised = None
        /\ fx_out.returned[1] # None
        /\ fx_out.returned[1][1]["matches_analyzed"] = Len(FetchedMatches)

CollectStatsCalled ==
    fx_fn = "TeamStatsCollector.collect_stats_for_teams" /\ fx_out # NotCalled

\* C25: every row collect_stats_for_teams emits comes from at least one
\* analyzed match: matches_analyzed is at least 1 and the averages are in it.
C25_RowsFromAnalyzedMatches ==
    (CollectStatsCalled /\ fx_out.raised = None) =>
        \A n \in DOMAIN fx_out.returned[1] :
            /\ fx_out.returned[1][n]["matches_analyzed"] >= 1
            /\ "avg_goals_scored" \in DOMAIN fx_out.returned[1][n]
            /\ "avg_goals_conceded" \in DOMAIN fx_out.returned[1][n]

FormStatsCalled ==
    fx_fn = "TeamStatsCollector._calculate_form_stats" /\ fx_out # NotCalled

\* C26: for every list of statistics, the empty one too, _calculate_form_stats
\* returns wins, draws, losses and points; a win is a match with more goals
\* scored than conceded, a draw one with as many; the three add up to the
\* number of matches and points is 3 * wins + draws.
C26_FormAddsUp ==
    FormStatsCalled =>
        /\ fx_out.raised = None
        /\ LET form == fx_out.returned[1]
               all_stats == fx_args.all_stats
               won == {i \in DOMAIN all_stats :
                          all_stats[i].goals_scored > all_stats[i].goals_conceded}
               drawn == {i \in DOMAIN all_stats :
                            all_stats[i].goals_scored = all_stats[i].goals_conceded}
           IN  /\ {"wins", "draws", "losses", "points"} \subseteq DOMAIN form
               /\ form["wins"] = Cardinality(won)
               /\ form["draws"] = Cardinality(drawn)
               /\ form["wins"] + form["draws"] + form["losses"] = Len(all_stats)
               /\ form["points"] = 3 * form["wins"] + form["draws"]

====
